---- MODULE Spec2Model ----
(***************************************************************************)
(* Model of the syster-lsp server state (crates/syster-lsp/src/server):    *)
(* the document text buffers, the parse errors, the analysis host with its *)
(* dirty-flagged symbol index, and the per-document cancellation tokens.   *)
(*                                                                         *)
(* A document text is a sequence of characters.  The characters of the     *)
(* model are whole statements of the modelling language:                   *)
(*    "d"   package P { part def V; }                                      *)
(*    "i"   package Q { import P::V; }                                     *)
(*    "u"   package Q { part x<k> : V; }     (k = position in the text)    *)
(*    "#"   text the parser cannot parse at all                            *)
(* Document a holds the declaration, document b the import and the usages, *)
(* with the import written first.  All statements of a document are on    *)
(* line 0; the character offset of a statement is its index.               *)
(***************************************************************************)
EXTENDS Integers, Sequences, FiniteSets, TLC

VARIABLES
    document_texts,         \* LspServer.document_texts : path -> text
    parse_errors,           \* LspServer.parse_errors : path -> errors
    host_files,             \* AnalysisHost files : path -> syntax file
    host_dirty,             \* AnalysisHost dirty flag
    host_index,             \* AnalysisHost cached snapshot
    host_order,             \* AnalysisHost: the paths of its files, the last set last
    host_rebuilds,          \* history: the rebuilds since the host was last marked dirty
    workspace_initialized,  \* LspServer.workspace_initialized
    workspace_folders,      \* LspServer.workspace_folders
    parsed_text,            \* history: the text last handed to the parser, per path
    last_set,               \* history: the paths handed to set_file, the last one last
    resave,                 \* history: path -> a full change with the indexed text is pending
    resaves,                \* history: consecutive re-indexings of identical content
    document_cancel_tokens, \* LspServer.document_cancel_tokens : path -> token
    cancelled,              \* the tokens that are cancelled
    next_token,             \* the next token CancellationToken::new() creates
    issued,                 \* history: path -> the tokens returned for it, in order
    format_call             \* the formatting request in flight and its blocking task

server_vars == <<document_texts, parse_errors, host_files, host_dirty, host_index,
                 host_order, host_rebuilds, last_set,
                 workspace_initialized, workspace_folders, parsed_text, resave,
                 resaves>>

cancel_vars == <<document_cancel_tokens, cancelled, next_token, issued, format_call>>

vars == <<server_vars, cancel_vars>>

-----------------------------------------------------------------------------
(* Bounds of the model *)

\* longest document text the client produces
MaxLen == 2
\* cap of the counter of consecutive identical re-saves
MaxResaves == 2
\* number of cancellation tokens the server creates
MaxTokens == 4
\* cap of the counter of rebuilds since the host was last marked dirty
MaxRebuilds == 2
\* longest text, in characters, of the document that is edited by ranges
MaxChars == 3

-----------------------------------------------------------------------------
(* Paths, URIs and texts *)

Paths == {"a", "b"}

\* the order in which files are merged into a snapshot
PathOrder == <<"a", "b">>

\* "untitled" is a URI that is not a file URI
Uris == Paths \cup {"untitled"}

RECURSIVE SeqsUpTo(_, _)
SeqsUpTo(S, n) ==
    IF n = 0 THEN {<<>>}
    ELSE LET shorter == SeqsUpTo(S, n - 1)
         IN  shorter \cup {Append(s, c) : s \in {t \in shorter : Len(t) = n - 1}, c \in S}

\* Url::to_file_path
to_file_path(uri) ==
    IF uri \in Paths THEN [ok |-> TRUE, path |-> uri] ELSE [ok |-> FALSE]

\* map insert
Insert(map, k, v) == (k :> v) @@ map

-----------------------------------------------------------------------------
(* Text edits: helpers.rs *)

\* char::len_utf8 of the characters of the texts: "e'" stands for an accented
\* letter, which takes two bytes in UTF-8
CharWidth(c) == IF c = "e'" THEN 2 ELSE 1

RECURSIVE ByteLen(_)
ByteLen(s) == IF s = <<>> THEN 0 ELSE CharWidth(Head(s)) + ByteLen(Tail(s))

\* str::split('\n'): the lines of a text, without their newlines
RECURSIVE SplitLines(_)
SplitLines(s) ==
    IF \A k \in 1..Len(s) : s[k] # "\n" THEN <<s>>
    ELSE LET k == CHOOSE j \in 1..Len(s) :
                      s[j] = "\n" /\ \A m \in 1..(j - 1) : s[m] # "\n"
         IN  <<SubSeq(s, 1, k - 1)>> \o SplitLines(SubSeq(s, k + 1, Len(s)))

Min(x, y) == IF x < y THEN x ELSE y

\* char_offset_to_byte that takes the character offset for a byte offset
char_offset_to_byte_AsBytes(line, char_offset) == Min(char_offset, ByteLen(line))

\* line.chars().take(char_offset).map(|c| c.len_utf8()).sum()
char_offset_to_byte(line, char_offset) ==
    ByteLen(SubSeq(line, 1, Min(char_offset, Len(line))))

RECURSIVE LineStart(_, _)
LineStart(lines, line_idx) ==
    IF line_idx = 0 THEN 0
    ELSE ByteLen(lines[line_idx]) + 1 + LineStart(lines, line_idx - 1)

position_to_byte_offset(text, pos) ==
    LET lines == SplitLines(text)
    IN  IF pos.line > Len(lines) THEN [ok |-> FALSE]
        ELSE IF pos.line = Len(lines) THEN [ok |-> TRUE, offset |-> ByteLen(text)]
        ELSE [ok |-> TRUE,
              offset |-> LineStart(lines, pos.line)
                         + char_offset_to_byte(lines[pos.line + 1], pos.character)]

\* str::is_char_boundary: whether byte offset n of the text is the start of a
\* character or the end of the text
is_char_boundary(text, n) ==
    \E k \in 0..Len(text) : ByteLen(SubSeq(text, 1, k)) = n

\* the number of characters whose bytes end at byte offset n, a character
\* boundary of the text
CharsBefore(text, n) ==
    CHOOSE k \in 0..Len(text) : ByteLen(SubSeq(text, 1, k)) = n

\* apply_text_edit that inserts the new text and keeps the text of the range
apply_text_edit_KeepSpan(text, range, new_text) ==
    LET s == position_to_byte_offset(text, range.start)
        e == position_to_byte_offset(text, range.end)
    IN  IF ~s.ok \/ ~e.ok THEN [ok |-> FALSE, panic |-> FALSE]
        ELSE IF s.offset > e.offset THEN [ok |-> FALSE, panic |-> FALSE]
        ELSE IF e.offset > ByteLen(text) THEN [ok |-> FALSE, panic |-> FALSE]
        ELSE IF ~is_char_boundary(text, s.offset) \/ ~is_char_boundary(text, e.offset)
        THEN [ok |-> FALSE, panic |-> TRUE]
        ELSE [ok |-> TRUE, panic |-> FALSE,
              text |-> SubSeq(text, 1, CharsBefore(text, s.offset))
                       \o new_text
                       \o SubSeq(text, CharsBefore(text, s.offset) + 1, Len(text))]

\* Ok(text), Err, or the panic of a string slice whose end is not a character
\* boundary of the text
apply_text_edit(text, range, new_text) ==
    LET s == position_to_byte_offset(text, range.start)
        e == position_to_byte_offset(text, range.end)
    IN  IF ~s.ok \/ ~e.ok THEN [ok |-> FALSE, panic |-> FALSE]
        ELSE IF s.offset > e.offset THEN [ok |-> FALSE, panic |-> FALSE]
        ELSE IF e.offset > ByteLen(text) THEN [ok |-> FALSE, panic |-> FALSE]
        ELSE IF ~is_char_boundary(text, s.offset) \/ ~is_char_boundary(text, e.offset)
        THEN [ok |-> FALSE, panic |-> TRUE]
        ELSE [ok |-> TRUE, panic |-> FALSE,
              text |-> SubSeq(text, 1, CharsBefore(text, s.offset))
                       \o new_text
                       \o SubSeq(text, CharsBefore(text, e.offset) + 1, Len(text))]

-----------------------------------------------------------------------------
(* The parser and the per-file extraction (syster::project::file_loader,    *)
(* syster::hir; external to this crate)                                     *)

\* the statements the parser reports: "#" makes the whole text unparseable,
\* "?" is skipped by the parser's error recovery
BadStatements(text) ==
    SelectSeq([k \in 1..Len(text) |-> k], LAMBDA k : text[k] \in {"#", "?"})

\* a ParseError: message and position (line, column) of the statement
ParseError(k) == [message |-> "syntax error", position |-> [line |-> 0, column |-> k - 1]]

\* parse_with_result: one error for every statement the parser reports; no
\* content for a text with an unparseable statement, otherwise the syntax
\* file of its statements
parse_with_result(text) ==
    LET bad == BadStatements(text)
        errors == [j \in 1..Len(bad) |-> ParseError(bad[j])]
    IN  IF \E k \in 1..Len(text) : text[k] = "#"
        THEN [has_content |-> FALSE, errors |-> errors]
        ELSE [has_content |-> TRUE, content |-> [elements |-> text], errors |-> errors]

UsageName == <<"x1", "x2", "x3", "x4">>

\* a symbol without references: its name is the last part of its qualified
\* name, its scope the one that the parts in front of it name
Declared(qualified_name, kind, supertypes, file, k) ==
    [qualified_name |-> qualified_name, name |-> qualified_name[Len(qualified_name)],
     kind |-> kind, scope |-> SubSeq(qualified_name, 1, Len(qualified_name) - 1),
     file |-> file, start_col |-> k - 1, type_refs |-> <<>>, supertypes |-> supertypes]

\* the packages of the import examples: each imports all members of the one
\* in front of it, SimpleVehicleModel has the nested package VehicleAnalysis
ImportChain == <<"ScalarValues", "AttributeDefinitions", "Definitions", "SimpleVehicleModel">>

\* the package statements: "S" is package ScalarValues { attribute def Real; },
\* "A+" is package AttributeDefinitions { public import ScalarValues::*; },
\* "A-" the same with a private import, and so on along ImportChain
PackageStatements ==
    [c \in {"S", "A+", "A-", "D+", "D-", "M+", "M-"} |->
        [package |-> CASE c = "S" -> 1
                       [] c \in {"A+", "A-"} -> 2
                       [] c \in {"D+", "D-"} -> 3
                       [] OTHER -> 4,
         is_public |-> c \in {"A+", "D+", "M+"}]]

\* the definition statements: "B" is part def Base { attribute mass; },
\* "O" is part def Other { attribute mass; }, "N" is part def Mid :> Base;,
\* the others declare Derived: "E1" :> Base; "E2" :> Other, Base;
\* "E3" :> Base, Other; "E4" :> Mid; "E5" :> Base { attribute mass; };
\* "E6" :> Base { part wheel { } }; "Y" is part def Base :> Derived;, which
\* with a Derived that specializes Base closes a cycle
DefinitionStatements ==
    [c \in {"B", "Y", "O", "N", "E1", "E2", "E3", "E4", "E5", "E6"} |->
        [name |-> CASE c \in {"B", "Y"} -> "Base" [] c = "O" -> "Other" [] c = "N" -> "Mid"
                    [] OTHER -> "Derived",
         supertypes |-> CASE c = "N" -> <<"Base">>
                          [] c = "Y" -> <<"Derived">>
                          [] c = "E1" -> <<"Base">>
                          [] c = "E2" -> <<"Other", "Base">>
                          [] c = "E3" -> <<"Base", "Other">>
                          [] c = "E4" -> <<"Mid">>
                          [] c = "E5" -> <<"Base">>
                          [] c = "E6" -> <<"Base">>
                          [] OTHER -> <<>>,
         has_mass |-> c \in {"B", "O", "E5"},
         has_wheel |-> c = "E6"]]

\* the statements of the feature chain example: "G" is
\* part def Engine { port p1; }, "g" is part def Engine { }, "R" is
\* part driver : Engine;, "L" is port p1; outside Engine, "c" is
\* action turnVehicleOn { send via driver.p1; } and "k" is
\* action turnVehicleOn { send via driver.gear.p1; }
ChainStatements == {"G", "g", "R", "L", "c", "k"}

\* a symbol with one reference, the last part of a feature chain or a type
Referring(qualified_name, kind, target, chain_parts, file, k) ==
    [Declared(qualified_name, kind, <<>>, file, k) EXCEPT
        !.type_refs = <<[target |-> target, start_col |-> k - 1,
                         chain_parts |-> chain_parts,
                         chain_index |-> IF chain_parts = <<>> THEN 0
                                         ELSE Len(chain_parts) - 1]>>]

ChainSymbolsOf(file, c, k) ==
    CASE c = "G" -> <<Declared(<<"Engine">>, "PartDef", <<>>, file, k),
                      Declared(<<"Engine", "p1">>, "PortUsage", <<>>, file, k)>>
      [] c = "g" -> <<Declared(<<"Engine">>, "PartDef", <<>>, file, k)>>
      [] c = "R" -> <<Referring(<<"driver">>, "PartUsage", <<"Engine">>, <<>>, file, k)>>
      [] c = "L" -> <<Declared(<<"p1">>, "PortUsage", <<>>, file, k)>>
      [] c = "c" -> <<Referring(<<"turnVehicleOn">>, "ActionUsage", <<"p1">>,
                                <<"driver", "p1">>, file, k)>>
      [] c = "k" -> <<Referring(<<"turnVehicleOn">>, "ActionUsage", <<"p1">>,
                                <<"driver", "gear", "p1">>, file, k)>>

\* the statements of the alias example: "Ad" is package A { attribute
\* duration; }, "Ai" is package A { public import B::*; }, "Aid" is both,
\* "Bp" is package B { public import A::*; alias time for duration; }, "Bn"
\* the same without the import, "Bc" is package B { public import A::*;
\* alias time for span; alias span for time; } and "Cu" is
\* package C { import B::*; attribute timePerDistance :> time; }
AliasStatements == {"Ad", "Ai", "Aid", "Bp", "Bn", "Bc", "Cu"}

AliasSymbolsOf(file, c, k) ==
    CASE c \in {"Ad", "Aid"} -> <<Declared(<<"A", "duration">>, "AttributeUsage", <<>>, file, k)>>
      [] c = "Ai" -> <<>>
      [] c \in {"Bp", "Bn"} ->
            <<Referring(<<"B", "time">>, "Alias", <<"duration">>, <<>>, file, k)>>
      [] c = "Bc" -> <<Referring(<<"B", "time">>, "Alias", <<"span">>, <<>>, file, k),
                       Referring(<<"B", "span">>, "Alias", <<"time">>, <<>>, file, k)>>
      [] c = "Cu" -> <<Referring(<<"C", "timePerDistance">>, "AttributeUsage", <<"time">>,
                                 <<>>, file, k)>>

\* the wildcard import of a statement of the alias example
AliasImportsOf(file, c) ==
    IF c \in {"Ai", "Aid", "Bp", "Bc", "Cu"}
    THEN {[scope |-> <<IF c \in {"Ai", "Aid"} THEN "A" ELSE IF c = "Cu" THEN "C" ELSE "B">>,
           path |-> <<IF c \in {"Bp", "Bc"} THEN "A" ELSE "B">>,
           is_public |-> c # "Cu", is_wildcard |-> TRUE, file |-> file]}
    ELSE {}

\* the statements of the rename example: "e" is part def Engine;, "t" is
\* part def Truck;, "m" is part x : Engine; and "h" is part x : Truck;, the
\* usage named after its place in the file
RenameStatements == {"e", "t", "m", "h"}

RenameSymbolsOf(file, c, k) ==
    CASE c = "e" -> <<Declared(<<"Engine">>, "PartDef", <<>>, file, k)>>
      [] c = "t" -> <<Declared(<<"Truck">>, "PartDef", <<>>, file, k)>>
      [] c = "m" -> <<Referring(<<UsageName[k]>>, "PartUsage", <<"Engine">>, <<>>, file, k)>>
      [] c = "h" -> <<Referring(<<UsageName[k]>>, "PartUsage", <<"Truck">>, <<>>, file, k)>>

\* the symbol a statement at index k of a file declares
SymbolOf(file, c, k) ==
    IF c = "d"
    THEN [qualified_name |-> <<"P", "V">>, name |-> "V", kind |-> "PartDef",
          scope |-> <<"P">>, file |-> file, start_col |-> k - 1, type_refs |-> <<>>,
          supertypes |-> <<>>]
    ELSE IF c = "u"
    THEN [qualified_name |-> <<"Q", UsageName[k]>>, name |-> UsageName[k],
          kind |-> "PartUsage", scope |-> <<"Q">>, file |-> file, start_col |-> k - 1,
          type_refs |-> <<[target |-> <<"V">>, start_col |-> k - 1,
                         chain_parts |-> <<>>, chain_index |-> 0]>>,
          supertypes |-> <<>>]
    ELSE [qualified_name |-> <<"Q", "import", UsageName[k]>>, name |-> "import",
          kind |-> "Import", scope |-> <<"Q">>, file |-> file, start_col |-> k - 1,
          type_refs |-> <<[target |-> <<"P", "V">>, start_col |-> k - 1,
                         chain_parts |-> <<>>, chain_index |-> 0]>>,
          supertypes |-> <<>>]

\* the symbols a statement at index k of a file declares, in declaration order
SymbolsOf(file, c, k) ==
    IF c \in DOMAIN PackageStatements
    THEN LET package == ImportChain[PackageStatements[c].package]
         IN  <<Declared(<<package>>, "Package", <<>>, file, k)>>
             \o (IF c = "S"
                 THEN <<Declared(<<package, "Real">>, "AttributeDef", <<>>, file, k)>>
                 ELSE <<>>)
             \o (IF c \in {"M+", "M-"}
                 THEN <<Declared(<<package, "VehicleAnalysis">>, "Package", <<>>, file, k)>>
                 ELSE <<>>)
    ELSE IF c \in DOMAIN DefinitionStatements
    THEN LET def == DefinitionStatements[c]
         IN  <<Declared(<<def.name>>, "PartDef", def.supertypes, file, k)>>
             \o (IF def.has_mass
                 THEN <<Declared(<<def.name, "mass">>, "AttributeUsage", <<>>, file, k)>>
                 ELSE <<>>)
             \o (IF def.has_wheel
                 THEN <<Declared(<<def.name, "wheel">>, "PartUsage", <<>>, file, k)>>
                 ELSE <<>>)
    ELSE IF c \in ChainStatements THEN ChainSymbolsOf(file, c, k)
    ELSE IF c \in AliasStatements THEN AliasSymbolsOf(file, c, k)
    ELSE IF c \in RenameStatements THEN RenameSymbolsOf(file, c, k)
    ELSE IF c = "?" THEN <<>>
    ELSE IF c = "w" THEN <<Declared(<<"Q", "V">>, "PartDef", <<>>, file, k)>>
    ELSE <<SymbolOf(file, c, k)>>

\* the import declaration of a statement, in the scope that declares it
ImportsOf(file, c) ==
    IF c = "i"
    THEN {[scope |-> <<"Q">>, path |-> <<"P", "V">>, is_public |-> FALSE,
           is_wildcard |-> FALSE, file |-> file]}
    ELSE IF c \in DOMAIN PackageStatements /\ c # "S"
    THEN {[scope |-> <<ImportChain[PackageStatements[c].package]>>,
           path |-> <<ImportChain[PackageStatements[c].package - 1]>>,
           is_public |-> PackageStatements[c].is_public,
           is_wildcard |-> TRUE, file |-> file]}
    ELSE IF c \in AliasStatements THEN AliasImportsOf(file, c)
    ELSE {}

SeqToSet(s) == {s[k] : k \in 1..Len(s)}

RECURSIVE Flatten(_)
Flatten(seqs) == IF seqs = <<>> THEN <<>> ELSE Head(seqs) \o Flatten(Tail(seqs))

\* the symbols of one file, in declaration order
ExtractSymbols(file, syntax) ==
    Flatten([k \in 1..Len(syntax.elements) |-> SymbolsOf(file, syntax.elements[k], k)])

\* the import declarations of one file, each in the scope that declares it
ExtractImports(file, syntax) ==
    UNION {ImportsOf(file, syntax.elements[k]) : k \in 1..Len(syntax.elements)}

\* the raw references of a sequence of symbols: target, source symbol, place
ReferencesOf(symbols) ==
    Flatten([k \in 1..Len(symbols) |->
        [j \in 1..Len(symbols[k].type_refs) |->
            [target |-> symbols[k].type_refs[j].target,
             source |-> symbols[k].qualified_name,
             file |-> symbols[k].file,
             start_col |-> symbols[k].type_refs[j].start_col,
             scope |-> symbols[k].scope,
             chain_parts |-> symbols[k].type_refs[j].chain_parts,
             chain_index |-> symbols[k].type_refs[j].chain_index]]])

\* the references whose source lies in a file
OwnedReferences(references, file) == SelectSeq(references, LAMBDA r : r.file = file)

EmptySnapshot == [files |-> {}, symbols |-> <<>>, imports |-> {}, references |-> <<>>]

\* whether a file set after the symbol's file declares the symbol's name too
Superseded(files, order, sym) ==
    \E i \in 1..Len(order) : \E j \in (i + 1)..Len(order) :
        /\ order[i] = sym.file
        /\ \E other \in SeqToSet(ExtractSymbols(order[j], files[order[j]])) :
                other.qualified_name = sym.qualified_name

\* the merged view of all live per-file records; of a qualified name that
\* several files declare, the symbol of the file set last is kept
BuildSnapshot(files, order) ==
    LET symbols == Flatten([k \in 1..Len(PathOrder) |->
                        IF PathOrder[k] \in DOMAIN files
                        THEN SelectSeq(ExtractSymbols(PathOrder[k], files[PathOrder[k]]),
                                       LAMBDA sym : ~Superseded(files, order, sym))
                        ELSE <<>>])
    IN  [files |-> DOMAIN files,
         symbols |-> symbols,
         imports |-> UNION {ExtractImports(p, files[p]) : p \in DOMAIN files},
         references |-> ReferencesOf(symbols)]

-----------------------------------------------------------------------------
(* The resolver and the reference index over a snapshot (syster::hir)       *)

NoSymbol == [found |-> FALSE]

Found(sym) == [found |-> TRUE, symbol |-> sym]

\* resolve(qualified_name): exact global lookup
resolve(snapshot, qualified_name) ==
    IF \E k \in 1..Len(snapshot.symbols) :
            snapshot.symbols[k].qualified_name = qualified_name
    THEN Found(snapshot.symbols[CHOOSE k \in 1..Len(snapshot.symbols) :
            /\ snapshot.symbols[k].qualified_name = qualified_name
            /\ \A j \in 1..(k - 1) : snapshot.symbols[j].qualified_name # qualified_name])
    ELSE NoSymbol

RECURSIVE visible_in_package(_, _, _, _)

\* import_target whose wildcard import makes only the direct members of the
\* package visible
import_target_DirectMembers(snapshot, import, name, visited) ==
    IF import.is_wildcard THEN resolve(snapshot, import.path \o <<name>>)
    ELSE IF import.path[Len(import.path)] = name THEN resolve(snapshot, import.path)
    ELSE NoSymbol

\* what one import declaration makes visible under the name: the symbol a
\* direct import names, or the name as the package of a wildcard import makes
\* it visible
import_target(snapshot, import, name, visited) ==
    IF import.is_wildcard
    THEN IF import.path \in visited THEN NoSymbol
         ELSE visible_in_package(snapshot, import.path, name, visited)
    ELSE IF import.path[Len(import.path)] = name THEN resolve(snapshot, import.path)
    ELSE NoSymbol

\* visible_in_package that follows the private imports of the package too
visible_in_package_AnyImport(snapshot, package, name, visited) ==
    IF resolve(snapshot, package \o <<name>>).found
    THEN resolve(snapshot, package \o <<name>>)
    ELSE LET reexported ==
                {r \in {import_target(snapshot, i, name, visited \cup {package}) :
                            i \in {j \in snapshot.imports : j.scope = package}} :
                    r.found}
         IN  IF reexported = {} THEN NoSymbol ELSE CHOOSE r \in reexported : TRUE

\* the first result if it found a symbol, else the second
OrElse(first, second) == IF first.found THEN first ELSE second

\* one of the results of a set, none of the empty set
OneOf(results) == IF results = {} THEN NoSymbol ELSE CHOOSE r \in results : TRUE

\* the name as a package makes it visible to the scopes that import it: a
\* direct member, or what the public imports of the package make visible,
\* followed through public imports with the packages visited guarded
visible_in_package(snapshot, package, name, visited) ==
    OrElse(resolve(snapshot, package \o <<name>>),
           OneOf({r \in {import_target(snapshot, i, name, visited \cup {package}) :
                            i \in {j \in snapshot.imports :
                                        j.scope = package /\ j.is_public}} :
                    r.found}))

\* steps (a) to (c) at one scope: the symbol the scope declares under the
\* name, else what its own imports, public or private, make visible
visible_in_scope(snapshot, name, scope) ==
    OrElse(resolve(snapshot, scope \o <<name>>),
           OneOf({r \in {import_target(snapshot, i, name, {scope}) :
                            i \in {j \in snapshot.imports : j.scope = scope}} :
                    r.found}))

\* steps (a) to (e): what the scope or the nearest scope around it makes
\* visible, none at the root
RECURSIVE lexical_lookup(_, _, _)
lexical_lookup(snapshot, name, scope) ==
    OrElse(visible_in_scope(snapshot, name, scope),
           IF scope = <<>> THEN NoSymbol
           ELSE lexical_lookup(snapshot, name, SubSeq(scope, 1, Len(scope) - 1)))

RECURSIVE member_lookup(_, _, _, _, _)
RECURSIVE inherited_member(_, _, _, _, _)

\* the member of a resolved type, unless the type was visited before
member_of(snapshot, member_name, type, visited) ==
    IF type.found /\ type.symbol.qualified_name \notin visited
    THEN member_lookup(snapshot, member_name, type.symbol, type.symbol.scope, visited)
    ELSE NoSymbol

\* inherited_member that gives up when the first supertype has no such member
inherited_member_FirstOnly(snapshot, member_name, supertypes, scope_id, visited) ==
    IF supertypes = <<>> THEN NoSymbol
    ELSE member_of(snapshot, member_name,
                   lexical_lookup(snapshot, Head(supertypes), scope_id), visited)

\* the member in the supertypes, in declaration order, the first success wins
inherited_member(snapshot, member_name, supertypes, scope_id, visited) ==
    IF supertypes = <<>> THEN NoSymbol
    ELSE OrElse(member_of(snapshot, member_name,
                          lexical_lookup(snapshot, Head(supertypes), scope_id), visited),
                inherited_member(snapshot, member_name, Tail(supertypes), scope_id,
                                 visited))

\* the definition that types a usage
usage_type(snapshot, base_symbol, scope_id) ==
    IF base_symbol.kind = "PartUsage" /\ base_symbol.type_refs # <<>>
    THEN lexical_lookup(snapshot, base_symbol.type_refs[1].target[1], scope_id)
    ELSE NoSymbol

\* the member the base symbol declares, else the member of the definition
\* that types a usage, else the member inherited from the supertypes
member_lookup(snapshot, member_name, base_symbol, scope_id, visited) ==
    OrElse(resolve(snapshot, base_symbol.qualified_name \o <<member_name>>),
           OrElse(member_of(snapshot, member_name,
                            usage_type(snapshot, base_symbol, scope_id),
                            visited \cup {base_symbol.qualified_name}),
                  inherited_member(snapshot, member_name, base_symbol.supertypes,
                                   scope_id, visited \cup {base_symbol.qualified_name})))

\* a body scope that sees no inherited member
inherited_in_scope_None(snapshot, name, scope) == NoSymbol

\* the members of the owner of a body scope that its supertypes provide
inherited_by(snapshot, name, owner) ==
    IF owner.found
    THEN inherited_member(snapshot, name, owner.symbol.supertypes, owner.symbol.scope,
                          {owner.symbol.qualified_name})
    ELSE NoSymbol

\* the member that the definition whose body the scope is inherits from its
\* supertypes
inherited_in_scope(snapshot, name, scope) ==
    IF scope = <<>> THEN NoSymbol ELSE inherited_by(snapshot, name, resolve(snapshot, scope))

\* what the scope declares or imports, then the members the definition
\* owning the scope inherits, then the same in the parent scope, up to the
\* root
RECURSIVE lookup_in_scope(_, _, _)
lookup_in_scope(snapshot, name, scope) ==
    OrElse(visible_in_scope(snapshot, name, scope),
           OrElse(inherited_in_scope(snapshot, name, scope),
                  IF scope = <<>> THEN NoSymbol
                  ELSE lookup_in_scope(snapshot, name, SubSeq(scope, 1, Len(scope) - 1))))

RECURSIVE follow_alias(_, _, _)

\* follow_alias that answers with the alias it comes back to
follow_alias_StopAtRevisit(snapshot, result, visited) ==
    IF ~result.found THEN NoSymbol
    ELSE IF result.symbol.kind # "Alias" THEN result
    ELSE IF result.symbol.qualified_name \in visited THEN result
    ELSE follow_alias(snapshot,
                      lookup_in_scope(snapshot, result.symbol.type_refs[1].target[1],
                                      result.symbol.scope),
                      visited \cup {result.symbol.qualified_name})

\* a result that is an Alias is resolved again: the declared target of the
\* alias, looked up from the scope of the alias, with the aliases visited
\* guarded; any other result is the answer
follow_alias(snapshot, result, visited) ==
    IF ~result.found THEN NoSymbol
    ELSE IF result.symbol.kind # "Alias" THEN result
    ELSE IF result.symbol.qualified_name \in visited THEN NoSymbol
    ELSE follow_alias(snapshot,
                      lookup_in_scope(snapshot, result.symbol.type_refs[1].target[1],
                                      result.symbol.scope),
                      visited \cup {result.symbol.qualified_name})

\* resolve_in_scope(name, scope): the lookup along the scopes, with an alias
\* it lands on resolved to its target
resolve_in_scope(snapshot, name, scope) ==
    follow_alias(snapshot, lookup_in_scope(snapshot, name, scope), {})

\* resolve_member that finds only the members the base symbol declares
resolve_member_DeclaredOnly(snapshot, member_name, base_symbol, scope_id) ==
    resolve(snapshot, base_symbol.qualified_name \o <<member_name>>)

\* resolve_member(member_name, base_symbol, scope_id): structural lookup of a
\* member on a known symbol
resolve_member(snapshot, member_name, base_symbol, scope_id) ==
    member_lookup(snapshot, member_name, base_symbol, scope_id, {})

\* get_sources(target): the symbols that hold a reference to the target
get_sources(snapshot, target) ==
    {r.source : r \in {x \in SeqToSet(snapshot.references) : x.target = target}}

RECURSIVE fold_members(_, _, _, _, _)

\* the fold goes on from a part that resolved and ends with none at one that
\* did not
fold_from(snapshot, parts, i, last, next) ==
    IF next.found THEN fold_members(snapshot, parts, i + 1, last, next.symbol)
    ELSE NoSymbol

\* resolve_member folded over the parts from place i to place last, none at
\* the first part that does not resolve
fold_members(snapshot, parts, i, last, current) ==
    IF i > last THEN Found(current)
    ELSE fold_from(snapshot, parts, i, last,
                   resolve_member(snapshot, parts[i], current, current.scope))

\* the members folded over a base that resolved
fold_chain(snapshot, parts, chain_index, base) ==
    IF base.found THEN fold_members(snapshot, parts, 2, chain_index + 1, base.symbol)
    ELSE NoSymbol

\* resolve_feature_chain(parts, chain_index, scope_id); parts[1] is the first
\* part of the chain, chain_index counts from 0
resolve_feature_chain(snapshot, parts, chain_index, scope_id) ==
    fold_chain(snapshot, parts, chain_index,
               resolve_in_scope(snapshot, parts[1], scope_id))

\* get_full_reference_at_position(file, position): the reference at the
\* position with its target, its scope and its chain context
get_full_reference_at_position(snapshot, file, pos) ==
    LET at == {k \in 1..Len(snapshot.references) :
                    /\ snapshot.references[k].file = file
                    /\ pos.line = 0
                    /\ snapshot.references[k].start_col = pos.character}
    IN  IF at = {} THEN [found |-> FALSE]
        ELSE [found |-> TRUE,
              reference |-> snapshot.references[CHOOSE k \in at : \A j \in at : k <= j]]

-----------------------------------------------------------------------------
(* The analysis host (syster::ide::AnalysisHost)                            *)

\* AnalysisHost::new()
NewHost ==
    [files |-> <<>>, order |-> <<>>, dirty |-> TRUE, index |-> EmptySnapshot, rebuilds |-> 0]

\* set_file: replaces the file's record and marks the index dirty
set_file(host, path, file) ==
    [host EXCEPT !.files = Insert(host.files, path, file),
                 !.order = Append(SelectSeq(host.order, LAMBDA p : p # path), path),
                 !.dirty = TRUE, !.rebuilds = 0]

\* remove_file that marks the index dirty and keeps the record
remove_file_KeepRecord(host, path) == [host EXCEPT !.dirty = TRUE, !.rebuilds = 0]

\* remove_file: clears the file's record and marks the index dirty
remove_file(host, path) ==
    [host EXCEPT !.files = [p \in DOMAIN host.files \ {path} |-> host.files[p]],
                 !.order = SelectSeq(host.order, LAMBDA p : p # path),
                 !.dirty = TRUE, !.rebuilds = 0]

mark_dirty(host) == [host EXCEPT !.dirty = TRUE, !.rebuilds = 0]

\* the counter of rebuilds after one more
Rebuilt(host) == IF host.rebuilds < MaxRebuilds THEN host.rebuilds + 1 ELSE host.rebuilds

\* analysis() that rebuilds the symbols and the scopes and keeps the old
\* reference index
analysis_Partial(host) ==
    IF host.dirty
    THEN [host EXCEPT !.index = [BuildSnapshot(host.files, host.order) EXCEPT
                                    !.references = host.index.references],
                      !.dirty = FALSE, !.rebuilds = Rebuilt(host)]
    ELSE host

\* analysis() that rebuilds the snapshot whether the host is dirty or not
analysis_Always(host) ==
    [host EXCEPT !.index = BuildSnapshot(host.files, host.order), !.dirty = FALSE,
                 !.rebuilds = Rebuilt(host)]

\* analysis(): rebuilds the snapshot from all live files if dirty, otherwise
\* keeps the cached one; the snapshot returned is the index of the result
analysis(host) ==
    IF host.dirty
    THEN [host EXCEPT !.index = BuildSnapshot(host.files, host.order), !.dirty = FALSE,
                      !.rebuilds = Rebuilt(host)]
    ELSE host

\* the files on disk under the workspace folder "ws": a declares V, b does
\* not parse
DiskFiles == [a |-> <<"d">>, b |-> <<"#">>]

\* the files of the folder that parse
ParsedDiskFiles == {p \in DOMAIN DiskFiles : parse_with_result(DiskFiles[p]).has_content}

\* WorkspaceLoader::load_directory_into_host: parses every file of the folder
\* and adds the parsed ones to the host, leaving the dirty flag to the caller
load_directory_into_host(folder, host) ==
    LET parsed == ParsedDiskFiles
        loaded == [p \in parsed |-> parse_with_result(DiskFiles[p]).content]
    IN  [host EXCEPT !.files = loaded @@ host.files,
                     !.order = host.order
                               \o SelectSeq(PathOrder, LAMBDA p : p \in parsed
                                                                  /\ p \notin DOMAIN host.files)]

-----------------------------------------------------------------------------
(* LspServer: core.rs, document.rs                                          *)

Server == [document_texts |-> document_texts,
           parse_errors |-> parse_errors,
           analysis_host |-> [files |-> host_files, order |-> host_order,
                              dirty |-> host_dirty, index |-> host_index,
                              rebuilds |-> host_rebuilds],
           workspace_initialized |-> workspace_initialized,
           workspace_folders |-> workspace_folders]

Commit(S) ==
    /\ document_texts' = S.document_texts
    /\ parse_errors' = S.parse_errors
    /\ host_files' = S.analysis_host.files
    /\ host_order' = S.analysis_host.order
    /\ host_dirty' = S.analysis_host.dirty
    /\ host_rebuilds' = S.analysis_host.rebuilds
    /\ host_index' = S.analysis_host.index
    /\ workspace_initialized' = S.workspace_initialized
    /\ workspace_folders' = S.workspace_folders

RECURSIVE LoadFolders(_, _)
LoadFolders(folders, host) ==
    IF folders = <<>> THEN host
    ELSE LoadFolders(Tail(folders), load_directory_into_host(Head(folders), host))

\* texts of loaded files are read from disk unless the editor's version is tracked
sync_document_texts_from_files(S) ==
    LET missing == {p \in DOMAIN S.analysis_host.files :
                        p \notin DOMAIN S.document_texts /\ p \in DOMAIN DiskFiles}
    IN  IF missing = {} THEN S
        ELSE [S EXCEPT !.document_texts =
                        [p \in missing |-> DiskFiles[p]] @@ S.document_texts]

\* ensure_workspace_loaded that gives up when a file of a folder does not parse
ensure_workspace_loaded_FailFast(S) ==
    IF S.workspace_initialized THEN S
    ELSE IF S.workspace_folders # <<>> /\ ParsedDiskFiles # DOMAIN DiskFiles THEN S
    ELSE LET S1 == [S EXCEPT !.analysis_host =
                        LoadFolders(S.workspace_folders, S.analysis_host)]
             S2 == sync_document_texts_from_files(S1)
             S3 == [S2 EXCEPT !.analysis_host = mark_dirty(S2.analysis_host)]
         IN  [S3 EXCEPT !.workspace_initialized = TRUE]

\* ensure_workspace_loaded without the final mark_dirty
ensure_workspace_loaded_NoMarkDirty(S) ==
    IF S.workspace_initialized THEN S
    ELSE LET S1 == [S EXCEPT !.analysis_host =
                        LoadFolders(S.workspace_folders, S.analysis_host)]
             S2 == sync_document_texts_from_files(S1)
         IN  [S2 EXCEPT !.workspace_initialized = TRUE]

\* ensure_workspace_loaded that loads the workspace on every call
ensure_workspace_loaded_EveryCall(S) ==
    LET S1 == [S EXCEPT !.analysis_host =
                    LoadFolders(S.workspace_folders, S.analysis_host)]
        S2 == sync_document_texts_from_files(S1)
        S3 == [S2 EXCEPT !.analysis_host = mark_dirty(S2.analysis_host)]
    IN  [S3 EXCEPT !.workspace_initialized = TRUE]

\* the stdlib is disabled (LspServer::with_config(false, None))
ensure_workspace_loaded(S) ==
    IF S.workspace_initialized THEN S
    ELSE LET S1 == [S EXCEPT !.analysis_host =
                        LoadFolders(S.workspace_folders, S.analysis_host)]
             S2 == sync_document_texts_from_files(S1)
             S3 == [S2 EXCEPT !.analysis_host = mark_dirty(S2.analysis_host)]
         IN  [S3 EXCEPT !.workspace_initialized = TRUE]

create_empty_syntax_file(path) == [elements |-> <<>>]

\* parse_into_workspace that starts the host anew when the text does not parse
parse_into_workspace_ResetOnFailure(S, path, text) ==
    LET parse_result == parse_with_result(text)
        S1 == [S EXCEPT !.parse_errors = Insert(S.parse_errors, path, parse_result.errors)]
    IN  IF parse_result.has_content
        THEN [S1 EXCEPT !.analysis_host =
                            set_file(S1.analysis_host, path, parse_result.content)]
        ELSE [S1 EXCEPT !.analysis_host =
                            set_file(NewHost, path, create_empty_syntax_file(path))]

\* parse_into_workspace that keeps the old file when the text does not parse
parse_into_workspace_KeepOnFailure(S, path, text) ==
    LET parse_result == parse_with_result(text)
        S1 == [S EXCEPT !.parse_errors = Insert(S.parse_errors, path, parse_result.errors)]
    IN  IF parse_result.has_content
        THEN [S1 EXCEPT !.analysis_host =
                            set_file(S1.analysis_host, path, parse_result.content)]
        ELSE S1

\* parse_into_workspace that adds a file to the host but never updates one
parse_into_workspace_AddOnly(S, path, text) ==
    LET parse_result == parse_with_result(text)
        S1 == [S EXCEPT !.parse_errors = Insert(S.parse_errors, path, parse_result.errors)]
        file == IF parse_result.has_content THEN parse_result.content
                ELSE create_empty_syntax_file(path)
    IN  IF path \in DOMAIN S1.analysis_host.files THEN S1
        ELSE [S1 EXCEPT !.analysis_host = set_file(S1.analysis_host, path, file)]

\* parse_into_workspace that stores the errors of a parse only if it has some
parse_into_workspace_KeepErrors(S, path, text) ==
    LET parse_result == parse_with_result(text)
        S1 == IF parse_result.errors # <<>> \/ path \notin DOMAIN S.parse_errors
              THEN [S EXCEPT !.parse_errors =
                                Insert(S.parse_errors, path, parse_result.errors)]
              ELSE S
        file == IF parse_result.has_content THEN parse_result.content
                ELSE create_empty_syntax_file(path)
    IN  [S1 EXCEPT !.analysis_host = set_file(S1.analysis_host, path, file)]

parse_into_workspace(S, path, text) ==
    LET parse_result == parse_with_result(text)
        S1 == [S EXCEPT !.parse_errors = Insert(S.parse_errors, path, parse_result.errors)]
    IN  IF parse_result.has_content
        THEN [S1 EXCEPT !.analysis_host =
                            set_file(S1.analysis_host, path, parse_result.content)]
        ELSE [S1 EXCEPT !.analysis_host =
                            set_file(S1.analysis_host, path, create_empty_syntax_file(path))]

\* every path of the model has a supported extension
uri_to_model_path(uri) == to_file_path(uri)

\* open_document that stores the text and leaves the indexing to a later parse
open_document_TextOnly(S, uri, text) ==
    LET S1 == ensure_workspace_loaded(S)
        path == uri_to_model_path(uri)
    IN  IF ~path.ok THEN [ok |-> FALSE, state |-> S1]
        ELSE [ok |-> TRUE,
              state |-> [S1 EXCEPT !.document_texts =
                                    Insert(S1.document_texts, path.path, text)]]

\* returns the new state and whether the call returned Ok
open_document(S, uri, text) ==
    LET S1 == ensure_workspace_loaded(S)
        path == uri_to_model_path(uri)
    IN  IF ~path.ok THEN [ok |-> FALSE, state |-> S1]
        ELSE LET S2 == [S1 EXCEPT !.document_texts =
                                    Insert(S1.document_texts, path.path, text)]
             IN  [ok |-> TRUE, state |-> parse_into_workspace(S2, path.path, text)]

\* close_document that removes the document from the workspace
close_document_RemoveFile(S, uri) ==
    LET path == to_file_path(uri)
    IN  IF ~path.ok THEN [state |-> S, ok |-> TRUE]
        ELSE [state |-> [S EXCEPT
                    !.analysis_host = remove_file(S.analysis_host, path.path),
                    !.document_texts = [p \in DOMAIN S.document_texts \ {path.path} |->
                                            S.document_texts[p]]],
              ok |-> TRUE]

\* close_document: keeps the document in the workspace and returns Ok
close_document(S, uri) == [state |-> S, ok |-> TRUE]

\* parse_document that parses only a document the host does not hold yet
parse_document_SkipKnown(S, uri) ==
    LET path == uri_to_model_path(uri)
    IN  IF ~path.ok THEN S
        ELSE LET S1 == ensure_workspace_loaded(S)
             IN  IF /\ path.path \in DOMAIN S1.document_texts
                    /\ path.path \notin DOMAIN S1.analysis_host.files
                 THEN parse_into_workspace(S1, path.path, S1.document_texts[path.path])
                 ELSE S1

parse_document(S, uri) ==
    LET path == uri_to_model_path(uri)
    IN  IF ~path.ok THEN S
        ELSE LET S1 == ensure_workspace_loaded(S)
             IN  IF path.path \in DOMAIN S1.document_texts
                 THEN parse_into_workspace(S1, path.path, S1.document_texts[path.path])
                 ELSE S1

\* apply_text_change_only that adds the text of a full change to the buffer
apply_text_change_only_Append(S, uri, change) ==
    LET path == to_file_path(uri)
    IN  IF ~path.ok THEN [ok |-> FALSE, state |-> S]
        ELSE LET current_text == IF path.path \in DOMAIN S.document_texts
                                 THEN S.document_texts[path.path] ELSE <<>>
                 edited == IF change.has_range /\ current_text # <<>>
                           THEN apply_text_edit(current_text, change.range, change.text)
                           ELSE [ok |-> TRUE, text |-> current_text \o change.text]
             IN  IF ~edited.ok THEN [ok |-> FALSE, state |-> S]
                 ELSE [ok |-> TRUE,
                       state |-> [S EXCEPT !.document_texts =
                                    Insert(S.document_texts, path.path, edited.text)]]

\* apply_text_change_only that parses the new text at once
apply_text_change_only_Eager(S, uri, change) ==
    LET path == to_file_path(uri)
    IN  IF ~path.ok THEN [ok |-> FALSE, state |-> S]
        ELSE LET current_text == IF path.path \in DOMAIN S.document_texts
                                 THEN S.document_texts[path.path] ELSE <<>>
                 edited == IF change.has_range /\ current_text # <<>>
                           THEN apply_text_edit(current_text, change.range, change.text)
                           ELSE [ok |-> TRUE, text |-> change.text]
             IN  IF ~edited.ok THEN [ok |-> FALSE, state |-> S]
                 ELSE [ok |-> TRUE,
                       state |-> parse_document(
                                    [S EXCEPT !.document_texts =
                                        Insert(S.document_texts, path.path, edited.text)],
                                    uri)]

\* apply_text_change_only that empties the buffer when the edit fails
apply_text_change_only_ClearOnError(S, uri, change) ==
    LET path == to_file_path(uri)
    IN  IF ~path.ok THEN [ok |-> FALSE, state |-> S]
        ELSE LET current_text == IF path.path \in DOMAIN S.document_texts
                                 THEN S.document_texts[path.path] ELSE <<>>
                 edited == IF change.has_range /\ current_text # <<>>
                           THEN apply_text_edit(current_text, change.range, change.text)
                           ELSE [ok |-> TRUE, text |-> change.text]
             IN  [ok |-> edited.ok,
                  state |-> [S EXCEPT !.document_texts =
                                Insert(S.document_texts, path.path,
                                       IF edited.ok THEN edited.text ELSE <<>>)]]

\* a change event: [has_range, range, text]
apply_text_change_only(S, uri, change) ==
    LET path == to_file_path(uri)
    IN  IF ~path.ok THEN [ok |-> FALSE, state |-> S]
        ELSE LET current_text == IF path.path \in DOMAIN S.document_texts
                                 THEN S.document_texts[path.path] ELSE <<>>
                 edited == IF change.has_range /\ current_text # <<>>
                           THEN apply_text_edit(current_text, change.range, change.text)
                           ELSE [ok |-> TRUE, text |-> change.text]
             IN  IF ~edited.ok THEN [ok |-> FALSE, state |-> S]
                 ELSE [ok |-> TRUE,
                       state |-> [S EXCEPT !.document_texts =
                                    Insert(S.document_texts, path.path, edited.text)]]

-----------------------------------------------------------------------------
(* Queries: hover.rs, references.rs, test_helpers.rs                        *)

NoHover == [found |-> FALSE]

\* Analysis::hover(file, line, col): the symbol declared at the position, or,
\* on a reference, the symbol the reference resolves to now
analysis_hover(snapshot, file, pos) ==
    LET at == {k \in 1..Len(snapshot.symbols) :
                    /\ snapshot.symbols[k].file = file
                    /\ pos.line = 0
                    /\ snapshot.symbols[k].start_col = pos.character}
    IN  IF at = {} THEN NoSymbol
        ELSE LET sym == snapshot.symbols[CHOOSE k \in at : TRUE]
             IN  IF sym.type_refs = <<>> THEN Found(sym)
                 ELSE LET target == sym.type_refs[1].target
                      IN  IF sym.type_refs[1].chain_index > 0
                          THEN resolve_feature_chain(snapshot, sym.type_refs[1].chain_parts,
                                                     sym.type_refs[1].chain_index, sym.scope)
                          ELSE IF Len(target) = 1
                          THEN resolve_in_scope(snapshot, target[1], sym.scope)
                          ELSE resolve(snapshot, target)

\* the places of the references whose target is the qualified or the simple name
add_references_section_from_analysis(snapshot, qualified_name) ==
    LET simple_name == <<qualified_name[Len(qualified_name)]>>
    IN  SelectSeq(ReferencesOf(snapshot.symbols),
                  LAMBDA r : r.target = qualified_name \/ r.target = simple_name)

\* get_hover that keeps the snapshot it has once it knows the document
get_hover_CachedWhenKnown(S, uri, position) ==
    LET path == to_file_path(uri)
        host == IF path.ok /\ path.path \in S.analysis_host.index.files
                THEN S.analysis_host ELSE analysis(S.analysis_host)
        S1 == [S EXCEPT !.analysis_host = host]
    IN  IF ~path.ok THEN [state |-> S, hover |-> NoHover]
        ELSE IF path.path \notin host.index.files THEN [state |-> S1, hover |-> NoHover]
        ELSE LET result == analysis_hover(host.index, path.path, position)
             IN  IF ~result.found THEN [state |-> S1, hover |-> NoHover]
                 ELSE [state |-> S1,
                       hover |-> [found |-> TRUE,
                                  qualified_name |-> result.symbol.qualified_name,
                                  file |-> result.symbol.file,
                                  referenced_by |->
                                      add_references_section_from_analysis(
                                          host.index, result.symbol.qualified_name)]]

\* returns the state after the call and the hover
get_hover(S, uri, position) ==
    LET path == to_file_path(uri)
        host == analysis(S.analysis_host)
        S1 == [S EXCEPT !.analysis_host = host]
    IN  IF ~path.ok THEN [state |-> S, hover |-> NoHover]
        ELSE IF path.path \notin host.index.files THEN [state |-> S1, hover |-> NoHover]
        ELSE LET result == analysis_hover(host.index, path.path, position)
             IN  IF ~result.found THEN [state |-> S1, hover |-> NoHover]
                 ELSE [state |-> S1,
                       hover |-> [found |-> TRUE,
                                  qualified_name |-> result.symbol.qualified_name,
                                  file |-> result.symbol.file,
                                  referenced_by |->
                                      add_references_section_from_analysis(
                                          host.index, result.symbol.qualified_name)]]

\* Analysis::find_references(file, line, col, include_declaration): the
\* references to the symbol at the position, with its declaration if asked
find_references(snapshot, file, pos, include_declaration) ==
    LET result == analysis_hover(snapshot, file, pos)
    IN  IF ~result.found THEN <<>>
        ELSE (IF include_declaration
              THEN <<[file |-> result.symbol.file, start_col |-> result.symbol.start_col]>>
              ELSE <<>>)
             \o [k \in 1..Len(add_references_section_from_analysis(
                                    snapshot, result.symbol.qualified_name)) |->
                    LET r == add_references_section_from_analysis(
                                    snapshot, result.symbol.qualified_name)[k]
                    IN  [file |-> r.file, start_col |-> r.start_col]]

NoLocations == [found |-> FALSE]

\* get_references that reads a snapshot whose symbols are rebuilt and whose
\* reference index is not yet
get_references_Mixed(S, uri, position, include_declaration) ==
    LET path == to_file_path(uri)
        host == analysis_Partial(S.analysis_host)
        S1 == [S EXCEPT !.analysis_host = host]
    IN  IF ~path.ok THEN [state |-> S, locations |-> NoLocations]
        ELSE IF path.path \notin host.index.files
        THEN [state |-> S1, locations |-> NoLocations]
        ELSE [state |-> S1,
              locations |-> [found |-> TRUE,
                             list |-> find_references(host.index, path.path, position,
                                                      include_declaration)]]

\* returns the state after the call and the locations
get_references(S, uri, position, include_declaration) ==
    LET path == to_file_path(uri)
        host == analysis(S.analysis_host)
        S1 == [S EXCEPT !.analysis_host = host]
    IN  IF ~path.ok THEN [state |-> S, locations |-> NoLocations]
        ELSE IF path.path \notin host.index.files
        THEN [state |-> S1, locations |-> NoLocations]
        ELSE [state |-> S1,
              locations |-> [found |-> TRUE,
                             list |-> find_references(host.index, path.path, position,
                                                      include_declaration)]]

\* LspServer::file_count: the number of files the host holds
file_count(S) == Cardinality(DOMAIN S.analysis_host.files)

\* all_symbols that yields the symbols of every file the host holds, whether
\* or not a file set later declares the same qualified name
all_symbols_PerFile(S) ==
    Flatten([k \in 1..Len(PathOrder) |->
                IF PathOrder[k] \in DOMAIN S.analysis_host.files
                THEN ExtractSymbols(PathOrder[k], S.analysis_host.files[PathOrder[k]])
                ELSE <<>>])

\* LspServerTestExt::all_symbols
all_symbols(S) == analysis(S.analysis_host).index.symbols

\* LspServerTestExt::find_symbol_qualified: the first symbol all_symbols
\* yields that has the qualified name
find_symbol_qualified(S, qname) ==
    LET symbols == all_symbols(S)
        hits == {k \in 1..Len(symbols) : symbols[k].qualified_name = qname}
    IN  IF hits = {} THEN NoSymbol
        ELSE Found(symbols[CHOOSE k \in hits : \A j \in hits : k <= j])

\* LspServerTestExt::references_in_file
references_in_file(S, file_path) ==
    SelectSeq(ReferencesOf(all_symbols(S)), LAMBDA r : r.file = file_path)

Pos(line, character) == [line |-> line, character |-> character]

Range(start, end) == [start |-> start, end |-> end]

\* make_word_range(position): one character wide, at the position
make_word_range(position) ==
    Range(position, Pos(position.line, position.character + 1))

\* span_to_lsp_range of the span of a symbol
span_to_lsp_range(sym) == Range(Pos(0, sym.start_col), Pos(0, sym.start_col + 1))

NoSymbolAtPosition == [found |-> FALSE]

SymbolAtPosition(name, range) == [found |-> TRUE, name |-> name, range |-> range]

RECURSIVE walk_chain(_, _, _, _, _)

\* if let Some(next) = resolve_member(..) { current_symbol = next } else { break }
walk_from(snapshot, chain_parts, i, chain_index, current_symbol, next) ==
    IF next.found THEN walk_chain(snapshot, chain_parts, i + 1, chain_index, next.symbol)
    ELSE current_symbol

\* for i in 1..chain_index: moves to the member that part i names, and at a
\* part that does not resolve breaks with the symbol reached so far
walk_chain(snapshot, chain_parts, i, chain_index, current_symbol) ==
    IF i >= chain_index THEN current_symbol
    ELSE walk_from(snapshot, chain_parts, i, chain_index, current_symbol,
                   resolve_member(snapshot, chain_parts[i + 1], current_symbol,
                                  current_symbol.scope))

\* the final part resolved as a member of the symbol the walk ended at
resolve_final_part(snapshot, target_name, current_symbol) ==
    resolve_member(snapshot, target_name, current_symbol, current_symbol.scope)

\* the chain branch once the first part is resolved in the scope
resolve_from_base(snapshot, ref_info, base_symbol) ==
    IF base_symbol.found
    THEN resolve_final_part(snapshot, ref_info.target[1],
                            walk_chain(snapshot, ref_info.chain_parts, 1,
                                       ref_info.chain_index, base_symbol.symbol))
    ELSE NoSymbol

\* the chain branch: taken when chain_index > 0 and the chain has several parts
resolve_via_chain(snapshot, ref_info) ==
    IF ref_info.chain_index > 0 /\ Len(ref_info.chain_parts) > 1
    THEN resolve_from_base(snapshot, ref_info,
                           resolve_in_scope(snapshot, ref_info.chain_parts[1],
                                            ref_info.scope))
    ELSE NoSymbol

\* the standard resolution for non-chain or chain_index == 0
resolve_standard(snapshot, ref_info) ==
    IF Len(ref_info.target) = 1
    THEN resolve_in_scope(snapshot, ref_info.target[1], ref_info.scope)
    ELSE resolve(snapshot, ref_info.target)

\* return Some((symbol.qualified_name(), range)) if the resolution found a
\* symbol, else go on
ReturnOr(result, otherwise) ==
    IF result.found
    THEN SymbolAtPosition(result.symbol.qualified_name, span_to_lsp_range(result.symbol))
    ELSE otherwise

\* step 1 that answers with the raw target of the reference, unresolved
symbol_at_reference_RawTarget(snapshot, ref_info, position) ==
    SymbolAtPosition(ref_info.target, make_word_range(position))

\* step 1: the cursor is on a reference
symbol_at_reference(snapshot, ref_info, position) ==
    ReturnOr(resolve_via_chain(snapshot, ref_info),
             ReturnOr(resolve_standard(snapshot, ref_info),
                      SymbolAtPosition(ref_info.target, make_word_range(position))))

\* step 2: the cursor is on a symbol definition
symbol_at_definition(snapshot, path, position) ==
    LET declared == {k \in 1..Len(snapshot.symbols) :
                        /\ snapshot.symbols[k].file = path
                        /\ position.line = 0
                        /\ snapshot.symbols[k].start_col = position.character}
    IN  IF declared = {} THEN NoSymbolAtPosition
        ELSE ReturnOr(Found(snapshot.symbols[CHOOSE k \in declared :
                                                \A j \in declared : k <= j]),
                      NoSymbolAtPosition)

\* the two steps, given what the reference index has at the position
symbol_at(snapshot, path, position, hit) ==
    IF hit.found THEN symbol_at_reference(snapshot, hit.reference, position)
    ELSE symbol_at_definition(snapshot, path, position)

\* the two steps over the tables of the workspace
symbol_in_workspace(snapshot, path, position) ==
    symbol_at(snapshot, path, position,
              get_full_reference_at_position(snapshot, path, position))

\* LspServer::find_symbol_at_position: the qualified name and the range of
\* the symbol a reference at the position resolves to, else the raw target of
\* the reference, else the symbol declared at the position
find_symbol_at_position(S, path, position) ==
    symbol_in_workspace(BuildSnapshot(S.analysis_host.files, S.analysis_host.order),
                        path, position)

NoEdit == [found |-> FALSE]

\* the WorkspaceEdit: for every file with a reference, one TextEdit with the
\* new name for each of its references, in their order
workspace_edit(references, new_name) ==
    [found |-> TRUE,
     changes |-> [file \in {references[k].file : k \in 1..Len(references)} |->
                    LET in_file == SelectSeq(references, LAMBDA r : r.file = file)
                    IN  [k \in 1..Len(in_file) |->
                            [range |-> Range(Pos(0, in_file[k].start_col),
                                             Pos(0, in_file[k].start_col + 1)),
                             new_text |-> new_name]]]]

\* rename_result that answers with a WorkspaceEdit even without a reference
rename_result_AlwaysEdit(references, new_name) == workspace_edit(references, new_name)

\* None if there is no reference, else the WorkspaceEdit
rename_result(references, new_name) ==
    IF references = <<>> THEN NoEdit ELSE workspace_edit(references, new_name)

\* get_rename_edits that leaves the declaration out
get_rename_edits_UsagesOnly(S, uri, position, new_name) ==
    LET path == to_file_path(uri)
        host == analysis(S.analysis_host)
        S1 == [S EXCEPT !.analysis_host = host]
    IN  IF ~path.ok THEN [state |-> S, edit |-> NoEdit]
        ELSE IF ~find_symbol_at_position(S, path.path, position).found
        THEN [state |-> S, edit |-> NoEdit]
        ELSE IF path.path \notin host.index.files THEN [state |-> S1, edit |-> NoEdit]
        ELSE [state |-> S1,
              edit |-> rename_result(find_references(host.index, path.path, position, FALSE),
                                     new_name)]

\* LspServer::get_rename_edits: returns the state after the call and the
\* edit, none if there is no symbol at the position, the host does not know
\* the file or there is no reference
get_rename_edits(S, uri, position, new_name) ==
    LET path == to_file_path(uri)
        host == analysis(S.analysis_host)
        S1 == [S EXCEPT !.analysis_host = host]
    IN  IF ~path.ok THEN [state |-> S, edit |-> NoEdit]
        ELSE IF ~find_symbol_at_position(S, path.path, position).found
        THEN [state |-> S, edit |-> NoEdit]
        ELSE IF path.path \notin host.index.files THEN [state |-> S1, edit |-> NoEdit]
        ELSE [state |-> S1,
              edit |-> rename_result(find_references(host.index, path.path, position, TRUE),
                                     new_name)]

\* LspServerTestExt::resolve_name: the symbol the name resolves to from the
\* scope, over the snapshot analysis() returns
resolve_name(S, scope, name) ==
    LET host == analysis(S.analysis_host)
    IN  [state |-> [S EXCEPT !.analysis_host = host],
         symbol |-> resolve_in_scope(host.index, name, scope)]

-----------------------------------------------------------------------------
(* Code lenses: code_lens.rs                                                *)

\* SymbolKind::is_definition
is_definition(kind) == kind \in {"PartDef", "AttributeDef"}

\* the locations of the references whose target is the qualified name
collect_reference_locations_from_analysis(snapshot, qualified_name) ==
    LET references == SelectSeq(ReferencesOf(snapshot.symbols),
                                LAMBDA r : r.target = qualified_name)
    IN  [j \in 1..Len(references) |->
            [uri |-> references[j].file,
             range |-> Range(Pos(0, references[j].start_col),
                             Pos(0, references[j].start_col + 1))]]

\* SymbolIndex::symbols_in_file
symbols_in_file(snapshot, file) == SelectSeq(snapshot.symbols, LAMBDA sym : sym.file = file)

\* the lens of a symbol: none unless it is a definition or a package with
\* references
lens_of(snapshot, symbol) ==
    LET references == collect_reference_locations_from_analysis(
                            snapshot, symbol.qualified_name)
    IN  IF ~is_definition(symbol.kind) /\ symbol.kind # "Package" THEN <<>>
        ELSE IF Len(references) = 0 THEN <<>>
        ELSE <<[range |-> span_to_lsp_range(symbol),
                reference_count |-> Len(references),
                locations |-> references]>>

\* returns the state after the call and the lenses of the document
get_code_lenses(S, uri) ==
    LET path == to_file_path(uri)
        host == analysis(S.analysis_host)
        S1 == [S EXCEPT !.analysis_host = host]
    IN  IF ~path.ok THEN [state |-> S, lenses |-> <<>>]
        ELSE IF path.path \notin host.index.files THEN [state |-> S1, lenses |-> <<>>]
        ELSE LET symbols == symbols_in_file(host.index, path.path)
             IN  [state |-> S1,
                  lenses |-> Flatten([k \in 1..Len(symbols) |->
                                        lens_of(host.index, symbols[k])])]

-----------------------------------------------------------------------------
(* Diagnostics: diagnostics.rs; check_file is syster::hir                   *)

\* check_file: one diagnostic for every reference of the file that resolves
\* to no symbol
check_file(snapshot, file) ==
    LET references == SelectSeq(OwnedReferences(snapshot.references, file),
                                LAMBDA ref_info : ~resolve_standard(snapshot, ref_info).found)
    IN  [j \in 1..Len(references) |->
            [start_line |-> 0, start_col |-> references[j].start_col,
             end_line |-> 0, end_col |-> references[j].start_col + 1,
             severity |-> "Error", message |-> "undefined reference"]]

\* position_to_lsp_position
position_to_lsp_position(pos) == Pos(pos.line, pos.column)

hir_severity_to_lsp(severity) ==
    CASE severity = "Error" -> "ERROR"
      [] severity = "Warning" -> "WARNING"
      [] severity = "Info" -> "INFORMATION"
      [] severity = "Hint" -> "HINT"

\* step 1: the stored parse errors of the path as diagnostics
parse_diagnostics(S, path) ==
    IF path \in DOMAIN S.parse_errors
    THEN [j \in 1..Len(S.parse_errors[path]) |->
            LET e == S.parse_errors[path][j]
                pos == position_to_lsp_position(e.position)
            IN  [range |-> Range(pos, Pos(pos.line, pos.character + 1)),
                 severity |-> "ERROR", message |-> e.message,
                 source |-> "syster-parse"]]
    ELSE <<>>

\* step 2: the diagnostics of check_file on the snapshot
semantic_diagnostics(snapshot, path) ==
    IF path \in snapshot.files
    THEN LET semantic_diags == check_file(snapshot, path)
         IN  [j \in 1..Len(semantic_diags) |->
                [range |-> Range(Pos(semantic_diags[j].start_line,
                                     semantic_diags[j].start_col),
                                 Pos(semantic_diags[j].end_line,
                                     semantic_diags[j].end_col)),
                 severity |-> hir_severity_to_lsp(semantic_diags[j].severity),
                 message |-> semantic_diags[j].message,
                 source |-> "syster-semantic"]]
    ELSE <<>>

\* get_diagnostics that adds the semantic diagnostics in every case
get_diagnostics_Both(S, uri) ==
    LET path == to_file_path(uri)
        host == analysis(S.analysis_host)
    IN  IF ~path.ok THEN [state |-> S, diagnostics |-> <<>>]
        ELSE [state |-> [S EXCEPT !.analysis_host = host],
              diagnostics |-> parse_diagnostics(S, path.path)
                              \o semantic_diagnostics(host.index, path.path)]

\* returns the state after the call and the diagnostics
get_diagnostics(S, uri) ==
    LET path == to_file_path(uri)
        host == analysis(S.analysis_host)
    IN  IF ~path.ok THEN [state |-> S, diagnostics |-> <<>>]
        ELSE IF parse_diagnostics(S, path.path) # <<>>
        THEN [state |-> S, diagnostics |-> parse_diagnostics(S, path.path)]
        ELSE [state |-> [S EXCEPT !.analysis_host = host],
              diagnostics |-> semantic_diagnostics(host.index, path.path)]

-----------------------------------------------------------------------------
(* What the client sends *)

\* the texts a client keeps in each document: file a declares V, file b imports
\* and uses it
ClientTexts(path) ==
    IF path = "a" THEN {<<>>, <<"d">>}
    ELSE {t \in SeqsUpTo({"i", "u"}, MaxLen) : \A k \in 2..Len(t) : t[k] = "u"}
         \cup {<<"#">>}

\* the texts of the documents whose diagnostics are asked for: "?" is a
\* statement the parser reports and recovers from
DiagnosticTexts(path) ==
    IF path = "a" THEN {<<"d">>}
    ELSE {<<"u">>, <<"i", "u">>, <<"?", "u">>, <<"?">>, <<"#">>}

\* the characters of the document edited by ranges: a letter, a space, a
\* two-byte letter, carriage return and line feed
EditChars == {"x", " ", "e'", "\r", "\n"}

EditTexts(path) == IF path = "a" THEN SeqsUpTo(EditChars, MaxChars) ELSE {}

\* the texts the model lets a buffer hold
Allowed(path, text) ==
    \/ text \in ClientTexts(path) \cup DiagnosticTexts(path)
    \/ path = "a" /\ Len(text) <= MaxChars /\ \A k \in 1..Len(text) : text[k] \in EditChars

FullChange(text) == [has_range |-> FALSE, range |-> Range(Pos(0, 0), Pos(0, 0)),
                     text |-> text]

RangeChange(range, text) == [has_range |-> TRUE, range |-> range, text |-> text]

Changes(path) ==
    {FullChange(t) : t \in ClientTexts(path)}
    \cup {RangeChange(Range(Pos(0, 0), Pos(0, 1)), <<>>),       \* delete the first statement
          RangeChange(Range(Pos(0, 0), Pos(0, 0)), <<"i">>),    \* insert an import in front
          RangeChange(Range(Pos(1, 0), Pos(1, 0)), <<"u">>),    \* append a usage
          RangeChange(Range(Pos(0, 1), Pos(0, 0)), <<>>),       \* start after end
          RangeChange(Range(Pos(0, 0), Pos(2, 0)), <<>>)}       \* line out of bounds

HoverPositions == {Pos(0, c) : c \in 0..MaxLen}

-----------------------------------------------------------------------------
(* Cancellation tokens (core.rs) and formatting (formatting.rs)             *)

Tokens == [document_cancel_tokens |-> document_cancel_tokens,
           cancelled |-> cancelled,
           next_token |-> next_token]

\* cancel_document_operations that cancels the token of every document
cancel_document_operations_All(T, path) ==
    LET T1 == [T EXCEPT !.cancelled =
                    T.cancelled \cup {T.document_cancel_tokens[q] :
                                            q \in DOMAIN T.document_cancel_tokens}]
        new_token == T1.next_token
    IN  [state |-> [T1 EXCEPT !.next_token = T1.next_token + 1,
                              !.document_cancel_tokens =
                                    Insert(T1.document_cancel_tokens, path, new_token)],
         token |-> new_token]

\* cancel_document_operations that leaves the old token as it is
cancel_document_operations_KeepOld(T, path) ==
    LET new_token == T.next_token
    IN  [state |-> [T EXCEPT !.next_token = T.next_token + 1,
                             !.document_cancel_tokens =
                                    Insert(T.document_cancel_tokens, path, new_token)],
         token |-> new_token]

\* returns the token state after the call and the new token
cancel_document_operations(T, path) ==
    LET T1 == IF path \in DOMAIN T.document_cancel_tokens
              THEN [T EXCEPT !.cancelled = T.cancelled \cup {T.document_cancel_tokens[path]}]
              ELSE T
        new_token == T1.next_token
    IN  [state |-> [T1 EXCEPT !.next_token = T1.next_token + 1,
                              !.document_cancel_tokens =
                                    Insert(T1.document_cancel_tokens, path, new_token)],
         token |-> new_token]

None == [some |-> FALSE, edits |-> <<>>]

Some(edits) == [some |-> TRUE, edits |-> edits]

\* the formatter's normal form of a text: runs of spaces become one space
RECURSIVE Normalise(_)
Normalise(text) ==
    IF Len(text) < 2 THEN text
    ELSE IF text[1] = " " /\ text[2] = " " THEN Normalise(Tail(text))
    ELSE <<text[1]>> \o Normalise(Tail(text))

\* a line that ended with a line feed, without the carriage return before it
StripCr(line) ==
    IF line # <<>> /\ line[Len(line)] = "\r" THEN SubSeq(line, 1, Len(line) - 1) ELSE line

\* str::lines: the lines without their line endings (line feed, or carriage
\* return and line feed); the ending of the last line is optional
Lines(text) ==
    LET l == SplitLines(text)
        ended == [k \in 1..(Len(l) - 1) |-> StripCr(l[k])]
    IN  IF l[Len(l)] = <<>> THEN ended ELSE Append(ended, l[Len(l)])

full_document_range(text) ==
    LET line_count == IF Len(Lines(text)) = 0 THEN 0 ELSE Len(Lines(text)) - 1
        last_char == IF Len(Lines(text)) = 0 THEN 0
                     ELSE ByteLen(Lines(text)[Len(Lines(text))])
    IN  Range(Pos(0, 0), Pos(line_count, last_char))

\* the text the formatter is given: the document, or the selected part of it;
\* no text if the range is not a range of the document
FormatInput(call) ==
    IF call.kind = "document" THEN [ok |-> TRUE, text |-> call.text]
    ELSE LET start_byte == position_to_byte_offset(call.text, call.range.start)
             end_byte == position_to_byte_offset(call.text, call.range.end)
         IN  IF ~start_byte.ok \/ ~end_byte.ok THEN [ok |-> FALSE]
             ELSE IF start_byte.offset > end_byte.offset
                     \/ end_byte.offset > ByteLen(call.text) THEN [ok |-> FALSE]
             ELSE [ok |-> TRUE,
                   text |-> SubSeq(call.text, CharsBefore(call.text, start_byte.offset) + 1,
                                   CharsBefore(call.text, end_byte.offset))]

\* the result of format_text / format_range_text once the formatter has
\* returned: the final cancellation check, then the comparison with the input
FormatResult(call, is_cancelled) ==
    IF is_cancelled THEN None
    ELSE IF call.formatted = FormatInput(call).text THEN None
    ELSE Some(<<[range |-> IF call.kind = "document" THEN full_document_range(call.text)
                           ELSE call.range,
                 new_text |-> call.formatted]>>)

NoCall == [pc |-> "idle", kind |-> "document", text |-> <<>>,
           range |-> Range(Pos(0, 0), Pos(0, 0)), token |-> 0, formatted |-> <<>>,
           task_result |-> None, result |-> None, cancelled_before |-> FALSE]

FormatTexts == {<<"p", " ", "q">>, <<"p", " ", " ", "q">>}

FormatRanges == {Range(Pos(0, 0), Pos(0, 3)),     \* a part of the line
                 Range(Pos(0, 2), Pos(0, 1)),     \* start after end
                 Range(Pos(0, 0), Pos(3, 0))}     \* line out of bounds

\* didChange: cancel the operations of the document and take a new token
CancelDocumentOperations(path) ==
    LET r == cancel_document_operations(Tokens, path)
    IN  /\ next_token <= MaxTokens
        /\ document_cancel_tokens' = r.state.document_cancel_tokens
        /\ cancelled' = r.state.cancelled
        /\ next_token' = r.state.next_token
        /\ issued' = [issued EXCEPT ![path] = Append(@, r.token)]
        /\ UNCHANGED format_call

\* format_document / format_range_document is called with the text snapshot
\* and the current token of the document; the blocking task is spawned
FormatDocument(path, kind, text, range) ==
    /\ format_call.pc = "idle"
    /\ path \in DOMAIN document_cancel_tokens
    /\ format_call' = [NoCall EXCEPT !.pc = "spawned", !.kind = kind, !.text = text,
                                     !.range = range,
                                     !.token = document_cancel_tokens[path]]
    /\ UNCHANGED <<document_cancel_tokens, cancelled, next_token, issued>>

\* the call without a text snapshot resolves to None at once
FormatDocumentNoText(path) ==
    /\ format_call.pc = "idle"
    /\ path \in DOMAIN document_cancel_tokens
    /\ format_call' = [NoCall EXCEPT !.pc = "resolved",
                                     !.token = document_cancel_tokens[path],
                                     !.cancelled_before =
                                            document_cancel_tokens[path] \in cancelled]
    /\ UNCHANGED <<document_cancel_tokens, cancelled, next_token, issued>>

\* format_text begins: the first cancellation check, then the range
TaskStart ==
    /\ format_call.pc = "spawned"
    /\ format_call' =
        IF format_call.token \in cancelled \/ ~FormatInput(format_call).ok
        THEN [format_call EXCEPT !.pc = "done", !.task_result = None]
        ELSE [format_call EXCEPT !.pc = "formatting"]
    /\ UNCHANGED <<document_cancel_tokens, cancelled, next_token, issued>>

\* format_async looks at the token for the last time
FormatAsyncCheck ==
    /\ format_call.pc = "formatting"
    /\ format_call' =
        IF format_call.token \in cancelled
        THEN [format_call EXCEPT !.pc = "done", !.task_result = None]
        ELSE [format_call EXCEPT !.pc = "emitting"]
    /\ UNCHANGED <<document_cancel_tokens, cancelled, next_token, issued>>

\* format_async returns the formatted text
FormatAsyncReturn ==
    /\ format_call.pc = "emitting"
    /\ format_call' = [format_call EXCEPT
                            !.pc = "formatted",
                            !.formatted = Normalise(FormatInput(format_call).text)]
    /\ UNCHANGED <<document_cancel_tokens, cancelled, next_token, issued>>

\* format_text ends: the final cancellation check and the result of the task
TaskFinish ==
    /\ format_call.pc = "formatted"
    /\ format_call' = [format_call EXCEPT
                            !.pc = "done",
                            !.task_result =
                                FormatResult(format_call, format_call.token \in cancelled)]
    /\ UNCHANGED <<document_cancel_tokens, cancelled, next_token, issued>>

\* select! takes the branch of the finished task
SelectFormatTask ==
    /\ format_call.pc = "done"
    /\ format_call' = [format_call EXCEPT
                            !.pc = "resolved",
                            !.result = format_call.task_result,
                            !.cancelled_before = format_call.token \in cancelled]
    /\ UNCHANGED <<document_cancel_tokens, cancelled, next_token, issued>>

\* select! takes the branch of the cancelled token
SelectCancelled ==
    /\ format_call.pc \in {"spawned", "formatting", "emitting", "formatted", "done"}
    /\ format_call.token \in cancelled
    /\ format_call' = [format_call EXCEPT !.pc = "resolved", !.result = None,
                                          !.cancelled_before = TRUE]
    /\ UNCHANGED <<document_cancel_tokens, cancelled, next_token, issued>>

\* the response is sent; the next request may come
SendResponse ==
    /\ format_call.pc = "resolved"
    /\ format_call' = NoCall
    /\ UNCHANGED <<document_cancel_tokens, cancelled, next_token, issued>>

-----------------------------------------------------------------------------
(* Actions *)

\* files loaded from disk by the first ensure_workspace_loaded were parsed then
LoadedNow(S) ==
    IF ~workspace_initialized /\ S.workspace_initialized /\ workspace_folders # <<>>
    THEN [p \in ParsedDiskFiles |-> DiskFiles[p]] @@ parsed_text
    ELSE parsed_text

\* the files loaded from disk were handed to the host then, in path order
LoadedSet(S) ==
    IF ~workspace_initialized /\ S.workspace_initialized /\ workspace_folders # <<>>
    THEN last_set \o SelectSeq(PathOrder, LAMBDA p : p \in ParsedDiskFiles
                                                     /\ p \notin SeqToSet(last_set))
    ELSE last_set

\* the history of set paths after path is set
SetLast(history, path) == Append(SelectSeq(history, LAMBDA p : p # path), path)

OpenDocument(uri, text) ==
    LET r == open_document(Server, uri, text)
        path == to_file_path(uri)
    IN  /\ Commit(r.state)
        /\ parsed_text' = IF r.ok THEN Insert(LoadedNow(r.state), path.path, text)
                          ELSE LoadedNow(r.state)
        /\ last_set' = IF r.ok THEN SetLast(LoadedSet(r.state), path.path)
                       ELSE LoadedSet(r.state)
        /\ resave' = IF r.ok THEN [resave EXCEPT ![path.path] = FALSE] ELSE resave

ApplyTextChangeOnly(uri, change) ==
    LET r == apply_text_change_only(Server, uri, change)
        path == to_file_path(uri)
    IN  /\ path.ok => Allowed(path.path, r.state.document_texts[path.path])
        /\ Commit(r.state)
        /\ resave' = IF r.ok
                     THEN [resave EXCEPT ![path.path] =
                                /\ ~change.has_range
                                /\ path.path \in DOMAIN parsed_text
                                /\ change.text = parsed_text[path.path]]
                     ELSE resave
        /\ UNCHANGED <<parsed_text, last_set>>

\* whether parse_document(uri) hands a text to the parser
Indexes(S1, uri) ==
    to_file_path(uri).ok /\ to_file_path(uri).path \in DOMAIN S1.document_texts

ParseDocument(uri) ==
    LET S1 == parse_document(Server, uri)
        path == to_file_path(uri)
    IN  /\ Commit(S1)
        /\ parsed_text' = IF Indexes(S1, uri)
                          THEN Insert(LoadedNow(S1), path.path, S1.document_texts[path.path])
                          ELSE LoadedNow(S1)
        /\ last_set' = IF Indexes(S1, uri) THEN SetLast(LoadedSet(S1), path.path)
                       ELSE LoadedSet(S1)
        /\ resave' = IF Indexes(S1, uri) THEN [resave EXCEPT ![path.path] = FALSE]
                     ELSE resave

EnsureWorkspaceLoaded ==
    LET S1 == ensure_workspace_loaded(Server)
    IN  /\ Commit(S1)
        /\ parsed_text' = LoadedNow(S1)
        /\ last_set' = LoadedSet(S1)
        /\ UNCHANGED resave

GetHover(uri, position) ==
    /\ Commit(get_hover(Server, uri, position).state)
    /\ UNCHANGED <<parsed_text, last_set, resave>>

GetReferences(uri, position, include_declaration) ==
    /\ Commit(get_references(Server, uri, position, include_declaration).state)
    /\ UNCHANGED <<parsed_text, last_set, resave>>

\* find_symbol_at_position reads the server and changes nothing
FindSymbolAtPosition(path, position) ==
    /\ find_symbol_at_position(Server, path, position).found
    /\ UNCHANGED server_vars

ResolveName(scope, name) ==
    /\ Commit(resolve_name(Server, scope, name).state)
    /\ UNCHANGED <<parsed_text, last_set, resave>>

GetRenameEdits(uri, position, new_name) ==
    /\ Commit(get_rename_edits(Server, uri, position, new_name).state)
    /\ UNCHANGED <<parsed_text, last_set, resave>>

\* the call of format_text on the text of a document, not cancelled
FormatCall(text) ==
    [NoCall EXCEPT !.kind = "document", !.text = text, !.formatted = Normalise(text)]

\* the client formats the document and sends the edit it got back as a change
FormatAndApply(uri) ==
    /\ uri \in DOMAIN document_texts
    /\ FormatResult(FormatCall(document_texts[uri]), FALSE).some
    /\ ApplyTextChangeOnly(uri,
            RangeChange(FormatResult(FormatCall(document_texts[uri]), FALSE).edits[1].range,
                        FormatResult(FormatCall(document_texts[uri]), FALSE).edits[1].new_text))

GetCodeLenses(uri) ==
    /\ Commit(get_code_lenses(Server, uri).state)
    /\ UNCHANGED <<parsed_text, last_set, resave>>

GetDiagnostics(uri) ==
    /\ Commit(get_diagnostics(Server, uri).state)
    /\ UNCHANGED <<parsed_text, last_set, resave>>

CloseDocument(uri) ==
    /\ close_document(Server, uri).ok
    /\ Commit(close_document(Server, uri).state)
    /\ UNCHANGED <<parsed_text, last_set, resave>>

\* AnalysisHost::remove_file on the host of the server
RemoveFile(path) ==
    /\ Commit([Server EXCEPT !.analysis_host = remove_file(Server.analysis_host, path)])
    /\ parsed_text' = [p \in DOMAIN parsed_text \ {path} |-> parsed_text[p]]
    /\ last_set' = SelectSeq(last_set, LAMBDA p : p # path)
    /\ UNCHANGED resave

\* resolve_member on a symbol of the snapshot analysis() returns
ResolveMember(member_name, qualified_name) ==
    LET host == analysis(Server.analysis_host)
    IN  /\ resolve(host.index, qualified_name).found
        /\ Commit([Server EXCEPT !.analysis_host = host])
        /\ UNCHANGED <<parsed_text, last_set, resave>>

-----------------------------------------------------------------------------
(* Spec: a server without workspace folders, two documents a and b *)

InitServer(folders) ==
    /\ document_texts = <<>>
    /\ parse_errors = <<>>
    /\ host_files = NewHost.files
    /\ host_order = NewHost.order
    /\ last_set = <<>>
    /\ host_dirty = NewHost.dirty
    /\ host_rebuilds = NewHost.rebuilds
    /\ host_index = NewHost.index
    /\ workspace_initialized = FALSE
    /\ workspace_folders = folders
    /\ parsed_text = <<>>
    /\ resave = [p \in Paths |-> FALSE]
    /\ resaves = 0
    /\ document_cancel_tokens = <<>>
    /\ cancelled = {}
    /\ next_token = 1
    /\ issued = [p \in Paths |-> <<>>]
    /\ format_call = NoCall

Init == InitServer(<<>>)

Next ==
    \/ \E uri \in Paths : \E text \in ClientTexts(uri) :
            OpenDocument(uri, text) /\ UNCHANGED <<resaves, cancel_vars>>
    \/ OpenDocument("untitled", <<"d">>) /\ UNCHANGED <<resaves, cancel_vars>>
    \/ \E uri \in Paths : \E change \in Changes(uri) :
            ApplyTextChangeOnly(uri, change) /\ UNCHANGED <<resaves, cancel_vars>>
    \/ ApplyTextChangeOnly("untitled", FullChange(<<"d">>)) /\ UNCHANGED <<resaves, cancel_vars>>
    \/ \E uri \in Uris : ParseDocument(uri) /\ UNCHANGED <<resaves, cancel_vars>>
    \/ EnsureWorkspaceLoaded /\ UNCHANGED <<resaves, cancel_vars>>
    \/ \E uri \in Uris : \E position \in HoverPositions :
            GetHover(uri, position) /\ UNCHANGED <<resaves, cancel_vars>>
    \/ \E uri \in Paths : \E position \in HoverPositions :
            GetReferences(uri, position, TRUE) /\ UNCHANGED <<resaves, cancel_vars>>
    \/ \E uri \in Uris : CloseDocument(uri) /\ UNCHANGED <<resaves, cancel_vars>>

Spec == Init /\ [][Next]_vars

-----------------------------------------------------------------------------
(* SpecWorkspace: a server whose workspace folder holds file a on disk; the *)
(* client edits document b and saves it again and again                     *)

InitWorkspace == InitServer(<<"ws">>)

\* counts the consecutive re-indexings of a document with the content it has
CountResave(uri) ==
    LET S1 == parse_document(Server, uri)
    IN  resaves' = IF Indexes(S1, uri) /\ resave[to_file_path(uri).path]
                   THEN (IF resaves < MaxResaves THEN resaves + 1 ELSE resaves)
                   ELSE IF Indexes(S1, uri) THEN 0 ELSE resaves

NextWorkspace ==
    \/ \E text \in ClientTexts("b") : OpenDocument("b", text) /\ resaves' = 0 /\ UNCHANGED cancel_vars
    \/ \E change \in Changes("b") : ApplyTextChangeOnly("b", change) /\ UNCHANGED <<resaves, cancel_vars>>
    \/ \E uri \in Uris : ParseDocument(uri) /\ CountResave(uri) /\ UNCHANGED cancel_vars
    \/ EnsureWorkspaceLoaded /\ UNCHANGED <<resaves, cancel_vars>>
    \/ \E uri \in Uris : \E position \in HoverPositions :
            GetHover(uri, position) /\ UNCHANGED <<resaves, cancel_vars>>
    \/ \E uri \in Uris : \E position \in HoverPositions : \E include_declaration \in BOOLEAN :
            GetReferences(uri, position, include_declaration) /\ UNCHANGED <<resaves, cancel_vars>>

SpecWorkspace == InitWorkspace /\ [][NextWorkspace]_vars

-----------------------------------------------------------------------------
(* SpecCollision: a server without workspace folders whose two documents    *)
(* may both declare P::V                                                    *)

CollisionTexts == {<<>>, <<"d">>, <<"#">>}

NextCollision ==
    \/ \E uri \in Paths : \E text \in CollisionTexts :
            OpenDocument(uri, text) /\ UNCHANGED <<resaves, cancel_vars>>
    \/ \E uri \in Uris : ParseDocument(uri) /\ UNCHANGED <<resaves, cancel_vars>>
    \/ \E uri \in Uris : \E position \in HoverPositions :
            GetHover(uri, position) /\ UNCHANGED <<resaves, cancel_vars>>
    \/ \E uri \in Uris : \E position \in HoverPositions : \E include_declaration \in BOOLEAN :
            GetReferences(uri, position, include_declaration)
            /\ UNCHANGED <<resaves, cancel_vars>>

SpecCollision == Init /\ [][NextCollision]_vars

-----------------------------------------------------------------------------
(* SpecImports: a server without workspace folders whose document a holds   *)
(* packages of the import chain; SpecMembers: one whose document b holds    *)
(* part definitions that specialize one another                             *)

\* the statements of a text name different elements, in the order of Rank
Rank(c) ==
    IF c \in DOMAIN PackageStatements THEN PackageStatements[c].package
    ELSE CASE c \in {"B", "Y"} -> 1 [] c = "O" -> 2 [] c = "N" -> 3 [] OTHER -> 4

Ordered(t) == \A k \in 2..Len(t) : Rank(t[k - 1]) < Rank(t[k])

ChainTexts ==
    {t \in SeqsUpTo(DOMAIN PackageStatements, Len(ImportChain)) : Ordered(t)}
    \cup {<<"#">>}

DefinitionTexts ==
    {t \in SeqsUpTo(DOMAIN DefinitionStatements, Len(ImportChain)) : Ordered(t)}
    \cup {<<"#">>}

ResolverScopes ==
    {<<>>} \cup {<<ImportChain[n]>> : n \in 1..Len(ImportChain)}
    \cup {<<"SimpleVehicleModel", "VehicleAnalysis">>}

NextImports ==
    \/ \E text \in ChainTexts :
            OpenDocument("a", text) /\ UNCHANGED <<resaves, cancel_vars>>
    \/ \E scope \in ResolverScopes :
            ResolveName(scope, "Real") /\ UNCHANGED <<resaves, cancel_vars>>

SpecImports == Init /\ [][NextImports]_vars

NextMembers ==
    \/ \E text \in DefinitionTexts :
            OpenDocument("b", text) /\ UNCHANGED <<resaves, cancel_vars>>
    \/ \E base \in {<<"Derived">>, <<"Mid">>, <<"Base">>} :
            ResolveMember("mass", base) /\ UNCHANGED <<resaves, cancel_vars>>
    \/ \E scope \in {<<"Derived">>, <<"Derived", "wheel">>} :
            ResolveName(scope, "mass") /\ UNCHANGED <<resaves, cancel_vars>>

SpecMembers == Init /\ [][NextMembers]_vars

-----------------------------------------------------------------------------
(* SpecChains: a server without workspace folders whose document a holds    *)
(* the statements of the feature chain example                              *)

ChainRank(c) ==
    CASE c \in {"G", "g"} -> 1 [] c = "R" -> 2 [] c = "L" -> 3 [] OTHER -> 4

FeatureTexts ==
    {t \in SeqsUpTo(ChainStatements, Len(ImportChain)) :
        \A k \in 2..Len(t) : ChainRank(t[k - 1]) < ChainRank(t[k])}
    \cup {<<"#">>}

FeaturePositions == {Pos(0, c) : c \in 0..(Len(ImportChain) - 1)}

NextChains ==
    \/ \E text \in FeatureTexts :
            OpenDocument("a", text) /\ UNCHANGED <<resaves, cancel_vars>>
    \/ \E position \in FeaturePositions :
            GetHover("a", position) /\ UNCHANGED <<resaves, cancel_vars>>
    \/ \E position \in FeaturePositions :
            FindSymbolAtPosition("a", position) /\ UNCHANGED <<resaves, cancel_vars>>

SpecChains == Init /\ [][NextChains]_vars

-----------------------------------------------------------------------------
(* The server over two documents of the rename example: a holds the         *)
(* definitions, b the usages                                                *)

RenameTexts(path) ==
    IF path = "a" THEN {<<>>, <<"e">>, <<"t">>, <<"e", "t">>, <<"#">>}
    ELSE SeqsUpTo({"m", "h"}, Len(ImportChain) - 1)

NewNames == {"Motor"}

NextRename ==
    \/ \E uri \in Paths : \E text \in RenameTexts(uri) :
            OpenDocument(uri, text) /\ UNCHANGED <<resaves, cancel_vars>>
    \/ \E uri \in Uris : \E position \in FeaturePositions : \E new_name \in NewNames :
            GetRenameEdits(uri, position, new_name) /\ UNCHANGED <<resaves, cancel_vars>>
    \/ \E uri \in Uris : \E position \in FeaturePositions :
            GetHover(uri, position) /\ UNCHANGED <<resaves, cancel_vars>>
    \/ \E uri \in Uris : \E position \in FeaturePositions :
            GetReferences(uri, position, TRUE) /\ UNCHANGED <<resaves, cancel_vars>>

SpecRename == Init /\ [][NextRename]_vars

-----------------------------------------------------------------------------
(* SpecDiagnostics: document b holds usages of V with and without the       *)
(* import, statements the parser recovers from, and unparseable ones        *)

NextDiagnostics ==
    \/ \E uri \in Paths : \E text \in DiagnosticTexts(uri) :
            OpenDocument(uri, text) /\ UNCHANGED <<resaves, cancel_vars>>
    \/ \E uri \in Paths : \E text \in DiagnosticTexts(uri) :
            ApplyTextChangeOnly(uri, FullChange(text)) /\ UNCHANGED <<resaves, cancel_vars>>
    \/ \E uri \in Uris : ParseDocument(uri) /\ UNCHANGED <<resaves, cancel_vars>>
    \/ \E uri \in Uris : GetDiagnostics(uri) /\ UNCHANGED <<resaves, cancel_vars>>

SpecDiagnostics == Init /\ [][NextDiagnostics]_vars

-----------------------------------------------------------------------------
(* SpecEdit: the text of document a, with two-byte characters and line      *)
(* endings of both kinds, is replaced, edited by ranges and formatted       *)

EditPositions == {Pos(line, character) : line \in 0..MaxChars, character \in 0..MaxChars}

EditRanges == {Range(start, end) : start \in EditPositions, end \in EditPositions}

EditInserts == {<<>>, <<"e'">>, <<"\n">>}

NextEdit ==
    \/ \E text \in EditTexts("a") :
            ApplyTextChangeOnly("a", FullChange(text)) /\ UNCHANGED <<resaves, cancel_vars>>
    \/ \E range \in EditRanges : \E new_text \in EditInserts :
            ApplyTextChangeOnly("a", RangeChange(range, new_text))
                /\ UNCHANGED <<resaves, cancel_vars>>
    \/ FormatAndApply("a") /\ UNCHANGED <<resaves, cancel_vars>>

SpecEdit == Init /\ [][NextEdit]_vars

-----------------------------------------------------------------------------
(* SpecLens: file a declares P::V; file b declares Q::V ("w"), imports P::V *)
(* or neither, and holds a usage typed V in package Q                       *)

LensTexts(path) ==
    IF path = "a" THEN {<<>>, <<"d">>}
    ELSE {<<"u">>, <<"i", "u">>, <<"w", "u">>, <<"w">>}

NextLens ==
    \/ \E uri \in Paths : \E text \in LensTexts(uri) :
            OpenDocument(uri, text) /\ UNCHANGED <<resaves, cancel_vars>>
    \/ \E uri \in Uris : \E position \in HoverPositions :
            GetHover(uri, position) /\ UNCHANGED <<resaves, cancel_vars>>
    \/ \E uri \in Uris : GetCodeLenses(uri) /\ UNCHANGED <<resaves, cancel_vars>>

SpecLens == Init /\ [][NextLens]_vars

-----------------------------------------------------------------------------
(* The analysis host under edits: documents a and b are opened, their files *)
(* are removed from the host, and queries ask for the snapshot              *)

HostTexts(path) == ClientTexts(path) \cup {<<"d">>}

NextHost ==
    \/ \E uri \in Paths : \E text \in HostTexts(uri) :
            OpenDocument(uri, text) /\ UNCHANGED <<resaves, cancel_vars>>
    \/ \E path \in Paths : RemoveFile(path) /\ UNCHANGED <<resaves, cancel_vars>>
    \/ \E uri \in Paths : \E position \in HoverPositions :
            GetHover(uri, position) /\ UNCHANGED <<resaves, cancel_vars>>

SpecHost == Init /\ [][NextHost]_vars

-----------------------------------------------------------------------------
(* The server over one document, edited by opening it with the texts of     *)
(* the statements of the alias example                                      *)

\* at most one statement for each of the packages A, B and C, in this order
AliasTexts ==
    {SelectSeq(<<a, b, c>>, LAMBDA x : x # "") :
        a \in {"", "Ad", "Ai", "Aid"}, b \in {"", "Bp", "Bn", "Bc"}, c \in {"", "Cu"}}
    \cup {<<"#">>}

NextAlias ==
    \/ \E text \in AliasTexts :
            OpenDocument("a", text) /\ UNCHANGED <<resaves, cancel_vars>>
    \/ \E position \in FeaturePositions :
            GetHover("a", position) /\ UNCHANGED <<resaves, cancel_vars>>
    \/ \E position \in FeaturePositions :
            FindSymbolAtPosition("a", position) /\ UNCHANGED <<resaves, cancel_vars>>
    \/ \E scope \in {<<"A">>, <<"B">>, <<"C">>} : \E name \in {"time", "duration"} :
            ResolveName(scope, name) /\ UNCHANGED <<resaves, cancel_vars>>

SpecAlias == Init /\ [][NextAlias]_vars

-----------------------------------------------------------------------------
(* SpecCancel: the cancellation tokens of the documents and one formatting  *)
(* request at a time, its blocking task running beside the edits            *)

NextCancel ==
    \/ \E path \in Paths : CancelDocumentOperations(path) /\ UNCHANGED server_vars
    \/ \E path \in Paths : \E text \in FormatTexts :
            FormatDocument(path, "document", text, full_document_range(text))
            /\ UNCHANGED server_vars
    \/ \E path \in Paths : \E text \in FormatTexts : \E range \in FormatRanges :
            FormatDocument(path, "range", text, range) /\ UNCHANGED server_vars
    \/ \E path \in Paths : FormatDocumentNoText(path) /\ UNCHANGED server_vars
    \/ TaskStart /\ UNCHANGED server_vars
    \/ FormatAsyncCheck /\ UNCHANGED server_vars
    \/ FormatAsyncReturn /\ UNCHANGED server_vars
    \/ TaskFinish /\ UNCHANGED server_vars
    \/ SelectFormatTask /\ UNCHANGED server_vars
    \/ SelectCancelled /\ UNCHANGED server_vars
    \/ SendResponse /\ UNCHANGED server_vars

SpecCancel == Init /\ [][NextCancel]_vars

-----------------------------------------------------------------------------
(* Properties of the index after re-indexing (Spec)                        *)

\* the snapshot a query gets now
View == analysis(Server.analysis_host).index

Has(text, c) == \E k \in 1..Len(text) : text[k] = c

\* the content the host holds for a file: what the parser made of the text last
\* handed to it, the empty file if it made nothing of it
IndexedContent(p) ==
    LET r == parse_with_result(parsed_text[p])
    IN  IF r.has_content THEN r.content ELSE create_empty_syntax_file(p)

Indexed(p) == p \in DOMAIN parsed_text

\* C1: the Reference Index entries whose source lies in a file are exactly the
\* references extracted from the content the file was last indexed with; a
\* file never indexed has none, and no entry of an earlier version survives.
C1_ReferencesMatchIndexedContent ==
    \A p \in Paths :
        references_in_file(Server, p) =
            IF Indexed(p) THEN ReferencesOf(ExtractSymbols(p, IndexedContent(p)))
            ELSE <<>>

\* file b was re-indexed and a reference of its earlier version, still in the
\* stale cached snapshot, is in the index no more
C1_Witness ==
    /\ host_dirty
    /\ Indexed("b")
    /\ \E r \in SeqToSet(host_index.references) :
            /\ r.file = "b"
            /\ r \notin SeqToSet(references_in_file(Server, "b"))

\* C3: after a file is indexed again the symbols and the imports the index
\* holds for it are those of the new content, and a qualified name resolves
\* only to a symbol the content of its file declares now.
C3_SetFileReplacesSymbols ==
    /\ \A p \in Paths :
        /\ SelectSeq(all_symbols(Server), LAMBDA sym : sym.file = p) =
                IF Indexed(p) THEN ExtractSymbols(p, IndexedContent(p)) ELSE <<>>
        /\ {i \in View.imports : i.file = p} =
                IF Indexed(p) THEN ExtractImports(p, IndexedContent(p)) ELSE {}
    /\ \A sym \in SeqToSet(View.symbols) :
        LET r == resolve(View, sym.qualified_name)
        IN  /\ r.found
            /\ Indexed(r.symbol.file)
            /\ r.symbol \in SeqToSet(ExtractSymbols(r.symbol.file,
                                                    IndexedContent(r.symbol.file)))

\* the declaration of V was deleted from file a: the stale cached snapshot
\* still has P::V, the symbol table does not resolve it
C3_Witness ==
    /\ host_dirty
    /\ Indexed("a")
    /\ resolve(host_index, <<"P", "V">>).found
    /\ resolve(host_index, <<"P", "V">>).symbol.file = "a"
    /\ ~resolve(View, <<"P", "V">>).found

\* C4: when file b is indexed with a usage of V and without the import of
\* P::V, V does not resolve from b's scope and hover on the usage gives nothing.
C4_ImportRemovalClearsVisibility ==
    (Indexed("b") /\ ~Has(parsed_text["b"], "#") /\ ~Has(parsed_text["b"], "i")) =>
        /\ ~resolve_in_scope(View, "V", <<"Q">>).found
        /\ \A k \in 1..Len(parsed_text["b"]) :
                get_hover(Server, "b", Pos(0, k - 1)).hover = NoHover

\* the import was removed from b while a still declares V: the stale cached
\* snapshot resolved V from b's scope through the import
C4_Witness ==
    /\ host_dirty
    /\ Indexed("a") /\ parsed_text["a"] = <<"d">>
    /\ Indexed("b") /\ Has(parsed_text["b"], "u") /\ ~Has(parsed_text["b"], "i")
    /\ \E i \in host_index.imports : i.file = "b"
    /\ resolve_in_scope(host_index, "V", <<"Q">>).found

\* C5: when file b is indexed without the import and without any usage, hover
\* on the definition in a lists no reference located in b and the sources of
\* the target, by its qualified or its simple name, hold no symbol of b.
C5_RemovedReferencesLeaveNoEntries ==
    (Indexed("b") /\ ~Has(parsed_text["b"], "i") /\ ~Has(parsed_text["b"], "u")) =>
        /\ LET h == get_hover(Server, "a", Pos(0, 0)).hover
           IN  h.found => \A r \in SeqToSet(h.referenced_by) : r.file # "b"
        /\ \A target \in {<<"P", "V">>, <<"V">>} :
            /\ \A r \in SeqToSet(View.references) : r.target = target => r.file # "b"
            /\ \A src \in get_sources(View, target) :
                    resolve(View, src).found => resolve(View, src).symbol.file # "b"

\* a declares V, b was re-indexed without import and usage, and the stale
\* cached snapshot still lists b's references to V
C5_Witness ==
    /\ host_dirty
    /\ Indexed("a") /\ parsed_text["a"] = <<"d">>
    /\ Indexed("b") /\ ~Has(parsed_text["b"], "i") /\ ~Has(parsed_text["b"], "u")
    /\ get_hover(Server, "a", Pos(0, 0)).hover.found
    /\ \E r \in SeqToSet(add_references_section_from_analysis(host_index, <<"P", "V">>)) :
            r.file = "b"

\* C6: references hold names, resolved when asked: when a is indexed without
\* the declaration of V while b keeps its import and its usage, b's references
\* stay in the index with their names and hover on them resolves to nothing.
C6_ReferencesResolveAtQueryTime ==
    (/\ Indexed("a") /\ ~Has(parsed_text["a"], "d")
     /\ Indexed("b") /\ ~Has(parsed_text["b"], "#")) =>
        /\ ~resolve(View, <<"P", "V">>).found
        /\ \A k \in 1..Len(parsed_text["b"]) :
            /\ get_hover(Server, "b", Pos(0, k - 1)).hover = NoHover
            /\ \E r \in SeqToSet(references_in_file(Server, "b")) :
                    r.start_col = k - 1 /\ r.target[Len(r.target)] = "V"

\* V was deleted from a while b imports and uses it: in the stale cached
\* snapshot hover on b's usage resolved to the declaration in a
C6_Witness ==
    /\ host_dirty
    /\ Indexed("a") /\ ~Has(parsed_text["a"], "d")
    /\ Indexed("b") /\ parsed_text["b"] = <<"i", "u">>
    /\ "b" \in host_index.files
    /\ analysis_hover(host_index, "b", Pos(0, 1)).found
    /\ analysis_hover(host_index, "b", Pos(0, 1)).symbol.file = "a"

-----------------------------------------------------------------------------
(* Properties of re-indexing and of the snapshot (SpecWorkspace)            *)

Targets == {<<"P", "V">>, <<"V">>}

\* what the idempotence of re-indexing is measured on, in server state S
Counts(S) ==
    [symbols |-> all_symbols(S),
     references |-> [p \in Paths |-> Len(references_in_file(S, p))],
     sources |-> [target \in Targets |->
                    Cardinality(get_sources(analysis(S.analysis_host).index, target))],
     referenced_by |->
        LET h == get_hover(S, "a", Pos(0, 0)).hover
        IN  IF h.found THEN Len(h.referenced_by) ELSE 0]

\* C2: saving a document again with the content it was indexed with leaves
\* all symbols, the number of references of every file, the number of sources
\* of every target and the number of "Referenced by" entries as they were;
\* save by save this holds for any number of saves.
C2_ReindexIsIdempotent ==
    \A uri \in Paths :
        (resave[uri] /\ Indexes(parse_document(Server, uri), uri))
            => Counts(parse_document(Server, uri)) = Counts(Server)

\* b, which imports and uses V, was saved MaxResaves times in a row with
\* identical content and hover on V lists its references
C2_Witness ==
    /\ resaves = MaxResaves
    /\ Indexed("b") /\ Has(parsed_text["b"], "i") /\ Has(parsed_text["b"], "u")
    /\ Counts(Server).referenced_by >= 2
    /\ Counts(Server).references["b"] >= 2

-----------------------------------------------------------------------------
(* Properties of cancellation (SpecCancel)                                  *)

\* in the state given by the token map T and the history of returned tokens:
\* of the tokens returned for a path the last is the path's current token and
\* is not cancelled, every earlier one is cancelled
LatestTokenLive(T, returned) ==
    \A p \in Paths :
        returned[p] # <<>> =>
            /\ p \in DOMAIN T.document_cancel_tokens
            /\ T.document_cancel_tokens[p] = returned[p][Len(returned[p])]
            /\ returned[p][Len(returned[p])] \notin T.cancelled
            /\ \A k \in 1..(Len(returned[p]) - 1) : returned[p][k] \in T.cancelled

\* C9: after every step, for each path the token returned last by
\* cancel_document_operations is not cancelled and every token returned for
\* the path before is cancelled; a cancelled token stays cancelled.
C9_OnlyLatestTokenLive ==
    [][/\ LatestTokenLive([document_cancel_tokens |-> document_cancel_tokens',
                           cancelled |-> cancelled',
                           next_token |-> next_token'], issued')
       /\ cancelled \subseteq cancelled']_vars

\* three tokens were returned for one path and one for the other
C9_Witness ==
    \E p \in Paths : \E q \in Paths \ {p} :
        /\ Len(issued[p]) >= 3
        /\ Len(issued[q]) >= 1
        /\ issued[p][1] \in cancelled /\ issued[p][2] \in cancelled
        /\ issued[q][Len(issued[q])] \notin cancelled

\* C10: a formatting call whose token was cancelled before the call resolved
\* resolves to None.
C10_StaleFormattingDiscarded ==
    (format_call.pc = "resolved" /\ format_call.cancelled_before)
        => format_call.result = None

\* C11: a step never cancels or replaces the current token of a path for
\* which it returns no token: cancel_document_operations(p) leaves the token
\* of every other path q stored, the same and as cancelled as it was.
C11_CancellationIsPerDocument ==
    [][\A q \in Paths :
        issued'[q] = issued[q] =>
            /\ (q \in DOMAIN document_cancel_tokens') = (q \in DOMAIN document_cancel_tokens)
            /\ q \in DOMAIN document_cancel_tokens =>
                /\ document_cancel_tokens'[q] = document_cancel_tokens[q]
                /\ (document_cancel_tokens[q] \in cancelled')
                        = (document_cancel_tokens[q] \in cancelled)]_vars

\* q got its token before p's operations were cancelled again, and q's token
\* is still its current one and live
C11_Witness ==
    \E p \in Paths : \E q \in Paths \ {p} :
        /\ Len(issued[p]) >= 2
        /\ Len(issued[q]) = 1
        /\ issued[q][1] < issued[p][Len(issued[p])]
        /\ document_cancel_tokens[q] = issued[q][1]
        /\ issued[q][1] \notin cancelled

-----------------------------------------------------------------------------
(* Properties of the symbol table (SpecCollision)                           *)

\* the files whose indexed content declares the qualified name
Owners(qualified_name) ==
    {p \in Paths : /\ Indexed(p)
                   /\ \E sym \in SeqToSet(ExtractSymbols(p, IndexedContent(p))) :
                            sym.qualified_name = qualified_name}

\* of a set of files, the one handed to set_file last
MostRecentlySet(owners) ==
    last_set[CHOOSE k \in 1..Len(last_set) :
                /\ last_set[k] \in owners
                /\ \A j \in (k + 1)..Len(last_set) : last_set[j] \notin owners]

\* C12: of every qualified name that indexed files declare, the table has
\* exactly one live symbol, the one of the declaring file set last.
C12_QualifiedNamesUnique ==
    \A qualified_name \in {<<"P", "V">>} :
        Owners(qualified_name) # {} =>
            /\ Cardinality({k \in 1..Len(all_symbols(Server)) :
                    all_symbols(Server)[k].qualified_name = qualified_name}) = 1
            /\ resolve(View, qualified_name).found
            /\ resolve(View, qualified_name).symbol.file
                    = MostRecentlySet(Owners(qualified_name))

\* a declared P::V, then b declared it too: the stale cached snapshot has a's
\* symbol, b is the file set last
C12_Witness ==
    /\ host_dirty
    /\ Owners(<<"P", "V">>) = {"a", "b"}
    /\ last_set = <<"a", "b">>
    /\ resolve(host_index, <<"P", "V">>).found
    /\ resolve(host_index, <<"P", "V">>).symbol.file = "a"

-----------------------------------------------------------------------------
(* Properties of texts that do not parse (Spec)                             *)

InvalidTexts == {<<"#">>}

-----------------------------------------------------------------------------
(* Properties of a workspace with a malformed file (SpecWorkspace)          *)

\* the indexed text of the file did not parse
Malformed(p) == Indexed(p) /\ ~parse_with_result(parsed_text[p]).has_content

\* the server state in which the host holds the empty file for p
AsIfEmpty(S, p) ==
    [S EXCEPT !.analysis_host =
        [@ EXCEPT !.files = Insert(@, p, create_empty_syntax_file(p)), !.dirty = TRUE]]

\* what the queries on file q answer in server state S
Answers(S, q) ==
    [hover |-> [position \in HoverPositions |-> get_hover(S, q, position).hover],
     locations |-> [position \in HoverPositions |->
                        get_references(S, q, position, TRUE).locations],
     references |-> references_in_file(S, q),
     symbols |-> SelectSeq(all_symbols(S), LAMBDA sym : sym.file = q)]

\* C15: once the server has loaded the workspace or indexed a document, every
\* file of the folder that parses is held by the host although another does
\* not parse; and while the indexed text of a file p does not parse, every
\* other indexed file is held by the host and hover, references and symbols
\* of it are what they would be with the empty file in p's place.
C15_MalformedFileDoesNotBlockOthers ==
    /\ (workspace_initialized \/ DOMAIN parsed_text # {}) =>
            \A q \in ParsedDiskFiles : q \in DOMAIN host_files
    /\ \A p \in Paths : Malformed(p) =>
            \A q \in Paths \ {p} :
                /\ Indexed(q) => q \in DOMAIN host_files
                /\ Answers(Server, q) = Answers(AsIfEmpty(Server, p), q)

\* the folder's b does not parse, the client's b does not parse either, a was
\* loaded from the folder and hover on its declaration answers
C15_Witness ==
    /\ workspace_initialized
    /\ ParsedDiskFiles # DOMAIN DiskFiles
    /\ Malformed("b")
    /\ "a" \in DOMAIN host_files
    /\ get_hover(Server, "a", Pos(0, 0)).hover.found
    /\ Answers(Server, "a").symbols # <<>>

-----------------------------------------------------------------------------
(* Frame of re-indexing (Spec)                                              *)

\* what the host and the snapshot hold for file q in server state S
Owned(S, q) ==
    [file |-> IF q \in DOMAIN S.analysis_host.files
              THEN {S.analysis_host.files[q]} ELSE {},
     symbols |-> SelectSeq(all_symbols(S), LAMBDA sym : sym.file = q),
     imports |-> {i \in analysis(S.analysis_host).index.imports : i.file = q},
     references |-> references_in_file(S, q)]

\* C16: indexing a document p, by open_document with any text or by
\* parse_document, leaves the file record, the symbols, the imports and the
\* references of every other file q as they were.
C16_ReindexLeavesOtherFiles ==
    \A p \in Paths : \A q \in Paths \ {p} :
        /\ \A text \in ClientTexts(p) :
                Owned(open_document(Server, p, text).state, q) = Owned(Server, q)
        /\ Owned(parse_document(Server, p), q) = Owned(Server, q)

\* b was indexed again after a: the stale cached snapshot has other symbols
\* for b and the same symbols for a as the snapshot of now
C16_Witness ==
    /\ host_dirty
    /\ last_set = <<"a", "b">>
    /\ Owned(Server, "a").symbols # <<>>
    /\ SelectSeq(host_index.symbols, LAMBDA sym : sym.file = "a") = Owned(Server, "a").symbols
    /\ SelectSeq(host_index.symbols, LAMBDA sym : sym.file = "b") # Owned(Server, "b").symbols
    /\ Owned(Server, "b").references # <<>>

-----------------------------------------------------------------------------
(* Properties of name resolution over a snapshot (SpecCollision)            *)

\* C17: every symbol that all_symbols() yields is what resolving its own
\* qualified name returns, by the resolver and by find_symbol_qualified.
C17_QualifiedRoundTrip ==
    \A k \in 1..Len(all_symbols(Server)) :
        LET sym == all_symbols(Server)[k]
        IN  /\ resolve(View, sym.qualified_name) = Found(sym)
            /\ find_symbol_qualified(Server, sym.qualified_name) = Found(sym)

\* both files hold a declaration of P::V and the snapshot yields a symbol
C17_Witness ==
    /\ \A p \in Paths : p \in DOMAIN host_files /\ host_files[p].elements = <<"d">>
    /\ Len(all_symbols(Server)) > 0
    /\ resolve(View, all_symbols(Server)[1].qualified_name).found

-----------------------------------------------------------------------------
(* Properties of scoped resolution (SpecImports) and of structural          *)
(* resolution (SpecMembers)                                                 *)

Real == <<"ScalarValues", "Real">>

\* whether the package at place n of ImportChain imports the one in front of it
Imports(snapshot, n, is_public) ==
    \E i \in snapshot.imports : /\ i.scope = <<ImportChain[n]>>
                                /\ i.path = <<ImportChain[n - 1]>>
                                /\ i.is_public = is_public

\* the scopes of the snapshot inside the package at place n of ImportChain
ScopesInside(snapshot, n) ==
    {<<ImportChain[n]>>}
    \cup {sym.qualified_name : sym \in {x \in SeqToSet(snapshot.symbols) :
                /\ x.kind = "Package"
                /\ Len(x.qualified_name) = 2
                /\ x.qualified_name[1] = ImportChain[n]}}

\* whether every package from place 2 to place n publicly imports the one in
\* front of it
PublicChain(snapshot, n) == \A k \in 2..n : Imports(snapshot, k, TRUE)

\* C18: when a package imports publicly along a chain of public imports, of
\* any length, that ends at the package declaring Real, every scope inside it
\* resolves the simple name Real to that declaration.
C18_PublicImportsAreTransitive ==
    \A n \in 3..Len(ImportChain) :
        (PublicChain(View, n) /\ resolve(View, Real).found) =>
            \A scope \in ScopesInside(View, n) :
                /\ resolve_in_scope(View, "Real", scope) = resolve(View, Real)
                /\ resolve_name(Server, scope, "Real").symbol = resolve(View, Real)

\* the snapshot built has the whole chain of public imports, and the nested
\* package of SimpleVehicleModel imports nothing itself
C18_Witness ==
    /\ ~host_dirty
    /\ PublicChain(host_index, Len(ImportChain))
    /\ resolve(host_index, Real).found
    /\ <<"SimpleVehicleModel", "VehicleAnalysis">>
            \in ScopesInside(host_index, Len(ImportChain))
    /\ \A i \in host_index.imports : Len(i.scope) = 1
    /\ resolve_in_scope(host_index, "Real",
                        <<"SimpleVehicleModel", "VehicleAnalysis">>).found

\* C19: when Real is visible in a package only by its private import and a
\* package imports that package, the importing package does not resolve Real,
\* while the package that declares the private import does.
C19_PrivateImportsDoNotPropagate ==
    \A n \in 3..Len(ImportChain) :
        (/\ Imports(View, n - 1, FALSE)
         /\ PublicChain(View, n - 2)
         /\ resolve(View, Real).found
         /\ Imports(View, n, TRUE) \/ Imports(View, n, FALSE)) =>
            /\ resolve_in_scope(View, "Real", <<ImportChain[n - 1]>>) = resolve(View, Real)
            /\ \A scope \in ScopesInside(View, n) :
                    ~resolve_in_scope(View, "Real", scope).found

\* the snapshot built has Definitions importing AttributeDefinitions
\* privately, AttributeDefinitions importing ScalarValues publicly and
\* SimpleVehicleModel importing Definitions publicly
C19_Witness ==
    /\ ~host_dirty
    /\ Imports(host_index, 2, TRUE)
    /\ Imports(host_index, 3, FALSE)
    /\ Imports(host_index, 4, TRUE)
    /\ resolve(host_index, Real).found
    /\ resolve_in_scope(host_index, "Real", <<"Definitions">>).found
    /\ ~resolve_in_scope(host_index, "Real", <<"SimpleVehicleModel">>).found

\* the member mass a type of the examples provides: its own, or the one Mid
\* inherits from Base
MassOf(snapshot, type) ==
    IF ~resolve(snapshot, <<type>>).found THEN NoSymbol
    ELSE IF resolve(snapshot, <<type, "mass">>).found
    THEN resolve(snapshot, <<type, "mass">>)
    ELSE IF type = "Mid" /\ resolve(snapshot, <<"Base">>).found
    THEN resolve(snapshot, <<"Base", "mass">>)
    ELSE NoSymbol

\* the mass of the first of the supertypes, in declaration order, that
\* provides one
FirstMass(snapshot, supertypes) ==
    LET providers == {k \in 1..Len(supertypes) : MassOf(snapshot, supertypes[k]).found}
    IN  IF providers = {} THEN NoSymbol
        ELSE MassOf(snapshot, supertypes[CHOOSE k \in providers :
                                            \A j \in providers : k <= j])

\* C20: when Derived specializes Base, Base declares mass and Derived does
\* not, resolve_member of mass on Derived returns Base::mass, unless a
\* supertype declared in front of Base provides a mass: the first supertype
\* in declaration order that provides the member wins.
C20_InheritedMemberLookup ==
    LET derived == resolve(View, <<"Derived">>)
    IN  (derived.found /\ ~resolve(View, <<"Derived", "mass">>).found) =>
            LET supertypes == derived.symbol.supertypes
                member == resolve_member(View, "mass", derived.symbol,
                                         derived.symbol.scope)
            IN  /\ member = FirstMass(View, supertypes)
                /\ (supertypes = <<"Base">> /\ resolve(View, <<"Base", "mass">>).found)
                        => member = resolve(View, <<"Base", "mass">>)

\* the snapshot built has part def Base { attribute mass; } and
\* part def Derived :> Base; and nothing else
C20_Witness ==
    /\ ~host_dirty
    /\ "b" \in DOMAIN host_files
    /\ host_files["b"].elements = <<"B", "E1">>
    /\ resolve(host_index, <<"Derived">>).found
    /\ resolve(host_index, <<"Derived">>).symbol.supertypes = <<"Base">>
    /\ resolve_member(host_index, "mass", resolve(host_index, <<"Derived">>).symbol,
                      <<>>).found

CyclicSpecialization(snapshot) ==
    /\ resolve(snapshot, <<"Base">>).found
    /\ resolve(snapshot, <<"Derived">>).found
    /\ "Derived" \in SeqToSet(resolve(snapshot, <<"Base">>).symbol.supertypes)
    /\ "Base" \in SeqToSet(resolve(snapshot, <<"Derived">>).symbol.supertypes)
    /\ ~resolve(snapshot, <<"Base", "mass">>).found
    /\ ~resolve(snapshot, <<"Derived", "mass">>).found

\* C24: when Base and Derived specialize each other and neither declares
\* mass, resolve_member of mass on either of them ends and returns none;
\* coming back to a type visited before is a no-op, so that a further
\* supertype of Derived outside the cycle still provides its mass.
C24_CyclicSpecializationTerminates ==
    CyclicSpecialization(View) =>
        \A base \in {<<"Base">>, <<"Derived">>} :
            resolve_member(View, "mass", resolve(View, base).symbol,
                           resolve(View, base).symbol.scope)
                = IF "Other" \in SeqToSet(resolve(View, <<"Derived">>).symbol.supertypes)
                  THEN resolve(View, <<"Other", "mass">>)
                  ELSE NoSymbol

\* the snapshot built has part def Base :> Derived; and part def Derived :>
\* Base; and nothing else, and the member was asked for on it
C24_Witness ==
    /\ ~host_dirty
    /\ "b" \in DOMAIN host_files
    /\ host_files["b"].elements = <<"Y", "E1">>
    /\ CyclicSpecialization(host_index)
    /\ ~resolve_member(host_index, "mass", resolve(host_index, <<"Derived">>).symbol,
                       <<>>).found

-----------------------------------------------------------------------------
(* Properties of feature chains (SpecChains)                                *)

\* the references of a file that are a later part of a feature chain
ChainReferences(snapshot, file) ==
    {r \in SeqToSet(snapshot.references) : r.file = file /\ r.chain_index > 0}

\* C22: at a reference that is a later part of a feature chain,
\* find_symbol_at_position answers with the symbol that resolving the first
\* part lexically and every later part as a member of the symbol before it
\* reaches, and with nothing when a part does not resolve.
C22_FeatureChainStopsAtUnresolvedHop ==
    \A r \in ChainReferences(View, "a") :
        LET chain == resolve_feature_chain(View, r.chain_parts, r.chain_index, r.scope)
            answer == find_symbol_at_position(Server, "a", Pos(0, r.start_col))
        IN  IF chain.found
            THEN answer.found /\ answer.name = chain.symbol.qualified_name
            ELSE ~answer.found

-----------------------------------------------------------------------------
(* C23 *)

\* the references of a file whose name the lookup along the scopes lands on
\* an alias for
AliasReferences(snapshot, file) ==
    {r \in SeqToSet(snapshot.references) :
        /\ r.file = file
        /\ Len(r.target) = 1
        /\ lookup_in_scope(snapshot, r.target[1], r.scope).found
        /\ lookup_in_scope(snapshot, r.target[1], r.scope).symbol.kind = "Alias"}

\* the symbol of a qualified name is an Alias
IsAlias(snapshot, qualified_name) ==
    /\ resolve(snapshot, qualified_name).found
    /\ resolve(snapshot, qualified_name).symbol.kind = "Alias"

-----------------------------------------------------------------------------
(* C25 *)

\* packages A and B import each other publicly
CyclicImports(snapshot) ==
    /\ \E i \in snapshot.imports : i.scope = <<"A">> /\ i.path = <<"B">> /\ i.is_public
    /\ \E i \in snapshot.imports : i.scope = <<"B">> /\ i.path = <<"A">> /\ i.is_public

\* the aliases time and span of package B name each other
CyclicAliases(snapshot) ==
    /\ IsAlias(snapshot, <<"B", "time">>)
    /\ IsAlias(snapshot, <<"B", "span">>)
    /\ resolve(snapshot, <<"B", "time">>).symbol.type_refs[1].target = <<"span">>
    /\ resolve(snapshot, <<"B", "span">>).symbol.type_refs[1].target = <<"time">>

\* C25: the resolver queries end on tables with cycles: where packages A and
\* B import each other publicly, duration resolves from both to the
\* duration A declares and to none if A declares none; where two aliases
\* name each other, both names resolve to none from the package of the
\* aliases and from a package that imports it.
C25_ResolverTerminatesOnCycles ==
    /\ CyclicImports(View) =>
            \A scope \in {<<"A">>, <<"B">>} :
                /\ resolve_in_scope(View, "duration", scope)
                        = resolve(View, <<"A", "duration">>)
                /\ resolve_name(Server, scope, "duration").symbol
                        = resolve(View, <<"A", "duration">>)
    /\ CyclicAliases(View) =>
            \A scope \in {<<"A">>, <<"B">>, <<"C">>} : \A name \in {"time", "span"} :
                /\ ~resolve_in_scope(View, name, scope).found
                /\ ~resolve_name(Server, scope, name).symbol.found

\* the snapshot built has the two packages importing each other, the two
\* aliases naming each other and the reference to time in package C, which
\* sees the alias through its import and resolves it to none
C25_Witness ==
    /\ ~host_dirty
    /\ CyclicImports(host_index)
    /\ CyclicAliases(host_index)
    /\ \E r \in AliasReferences(host_index, "a") : r.source = <<"C", "timePerDistance">>
    /\ ~resolve_in_scope(host_index, "time", <<"C">>).found

-----------------------------------------------------------------------------
(* Properties of the analysis host under edits (SpecHost)                   *)

\* C26: edits are coalesced: while the host is dirty, however many files
\* were set or removed, no rebuild has happened since the first of these
\* edits, and once analysis() was called exactly one has, however often
\* analysis() is called after it; analysis() on a clean host changes nothing.
C26_EditsAreCoalesced ==
    /\ host_dirty => host_rebuilds = 0
    /\ ~host_dirty => host_rebuilds = 1
    /\ analysis(analysis(Server.analysis_host)) = analysis(Server.analysis_host)
    /\ analysis(analysis(Server.analysis_host)).rebuilds = 1

\* both documents were opened and the file of a removed again, three edits,
\* and the cached snapshot is still the one built before them
C26_Witness ==
    /\ host_dirty
    /\ host_rebuilds = 0
    /\ DOMAIN document_texts = {"a", "b"}
    /\ DOMAIN host_files = {"b"}
    /\ host_index.files = {}

\* the part of a sequence of symbols or references that a file owns
OwnedBy(seq, file) == SelectSeq(seq, LAMBDA x : x.file = file)

-----------------------------------------------------------------------------
(* C28 *)

\* C28: close_document returns Ok for every URI, opened or not, and leaves
\* the server as it is: the files of the workspace, their symbols and the
\* document texts; the hover on a position of the other document, which may
\* refer to the closed one, is the same after it as before.
C28_CloseDocumentChangesNothing ==
    \A uri \in Uris :
        LET closed == close_document(Server, uri)
        IN  /\ closed.ok
            /\ closed.state.analysis_host.files = host_files
            /\ closed.state.document_texts = document_texts
            /\ all_symbols(closed.state) = all_symbols(Server)
            /\ closed.state = Server
            /\ \A other \in Paths : \A position \in HoverPositions :
                    get_hover(closed.state, other, position).hover
                        = get_hover(Server, other, position).hover

\* document a declares V and document b refers to it; after a is closed the
\* hover on the usage in b still answers P::V; the third document was never
\* opened
C28_Witness ==
    /\ DOMAIN document_texts = {"a", "b"}
    /\ resolve(View, <<"P", "V">>).found
    /\ resolve(View, <<"P", "V">>).symbol.file = "a"
    /\ \E position \in HoverPositions :
            /\ get_hover(close_document(Server, "a").state, "b", position).hover.found
            /\ get_hover(close_document(Server, "a").state, "b", position).hover.qualified_name
                    = <<"P", "V">>

-----------------------------------------------------------------------------
(* C29 *)

-----------------------------------------------------------------------------
(* Properties of rename (SpecRename)                                        *)

\* the places of the occurrences of a symbol: its declaration and the
\* references that resolve to it from their scope
Occurrences(snapshot, sym) ==
    {[file |-> sym.file, start_col |-> sym.start_col]}
    \cup {[file |-> r.file, start_col |-> r.start_col] :
            r \in {x \in SeqToSet(snapshot.references) :
                        /\ Len(x.target) = 1
                        /\ resolve_in_scope(snapshot, x.target[1], x.scope).found
                        /\ resolve_in_scope(snapshot, x.target[1], x.scope).symbol = sym}}

\* the places the edits of a WorkspaceEdit change
EditedPlaces(changes) ==
    UNION {{[file |-> file, start_col |-> changes[file][k].range.start.character] :
                k \in 1..Len(changes[file])} : file \in DOMAIN changes}

RECURSIVE EditCount(_, _)
EditCount(changes, files) ==
    IF files = {} THEN 0
    ELSE LET file == CHOOSE f \in files : TRUE
         IN  Len(changes[file]) + EditCount(changes, files \ {file})

-----------------------------------------------------------------------------
(* C31 *)

\* the server after a query: as before it, but for the snapshot that
\* analysis() may have rebuilt from the same files
AsBefore(S) ==
    \/ S = Server
    \/ S = [Server EXCEPT !.analysis_host = analysis(Server.analysis_host)]

\* nothing is found at the position: the URI is no file path, the host does
\* not know the file, no symbol is at the position, or the name of the
\* reference at the position does not resolve
NothingAt(uri, position) ==
    \/ ~to_file_path(uri).ok
    \/ uri \notin View.files
    \/ ~analysis_hover(View, uri, position).found

-----------------------------------------------------------------------------
(* C32: a text change touches the text buffer only                          *)

AllChanges(uri) ==
    IF uri \in Paths THEN Changes(uri) ELSE {FullChange(<<"d">>)}

\* C32: apply_text_change_only changes nothing but document_texts: the host
\* (files, symbols, references, dirty flag), the stored parse errors and the
\* workspace fields are as before, so hover and references answer after the
\* change what they answered before it, from the previously parsed content
C32_TextChangeTouchesBufferOnly ==
    \A uri \in Uris : \A change \in AllChanges(uri) :
        LET r == apply_text_change_only(Server, uri, change)
        IN  /\ r.state = [Server EXCEPT !.document_texts = r.state.document_texts]
            /\ \A position \in HoverPositions :
                    /\ get_hover(r.state, uri, position).hover
                            = get_hover(Server, uri, position).hover
                    /\ get_references(r.state, uri, position, TRUE).locations
                            = get_references(Server, uri, position, TRUE).locations

\* the buffer of b was emptied after b was parsed with an import and a usage of
\* V; the hover on the usage still answers from the parsed content
C32_Witness ==
    /\ "b" \in DOMAIN document_texts /\ document_texts["b"] = <<>>
    /\ "b" \in DOMAIN parsed_text /\ parsed_text["b"] = <<"i", "u">>
    /\ "a" \in DOMAIN parsed_text /\ parsed_text["a"] = <<"d">>
    /\ get_hover(Server, "b", Pos(0, 1)).hover # NoHover
    /\ apply_text_change_only(Server, "b", FullChange(<<"#">>)).ok

-----------------------------------------------------------------------------
(* C33: parsing after a debounce gives what parsing at once gives            *)

\* LspServer::new(): nothing opened, nothing parsed, the same folders
FreshServer ==
    [document_texts |-> <<>>, parse_errors |-> <<>>, analysis_host |-> NewHost,
     workspace_initialized |-> FALSE, workspace_folders |-> workspace_folders]

\* what the server holds of file p: its record in the host, its symbols and
\* references in the snapshot a query gets, and its stored parse errors
FileContent(S, p) ==
    LET snapshot == analysis(S.analysis_host).index
    IN  [indexed |-> p \in DOMAIN S.analysis_host.files,
         file |-> IF p \in DOMAIN S.analysis_host.files
                  THEN S.analysis_host.files[p] ELSE create_empty_syntax_file(p),
         symbols |-> OwnedBy(snapshot.symbols, p),
         references |-> OwnedBy(snapshot.references, p),
         has_errors |-> p \in DOMAIN S.parse_errors,
         parse_errors |-> IF p \in DOMAIN S.parse_errors THEN S.parse_errors[p] ELSE <<>>]

\* C33: whatever was opened, changed and parsed before, one parse_document of
\* a document leaves of its file the symbols, references and parse errors
\* that open_document of the buffer's text leaves on a fresh server
C33_DebouncedEqualsEager ==
    \A p \in Paths :
        p \in DOMAIN document_texts =>
            FileContent(parse_document(Server, p), p)
                = FileContent(open_document(FreshServer, p, document_texts[p]).state, p)

\* b was parsed as a text with a syntax error; since then changes made its
\* buffer an import and a usage, which the next parse will index
C33_Witness ==
    /\ "b" \in DOMAIN parsed_text /\ parsed_text["b"] = <<"#">>
    /\ "b" \in DOMAIN document_texts /\ document_texts["b"] = <<"i", "u">>
    /\ FileContent(Server, "b").parse_errors # <<>>
    /\ FileContent(parse_document(Server, "b"), "b").parse_errors = <<>>
    /\ FileContent(parse_document(Server, "b"), "b").references # <<>>

-----------------------------------------------------------------------------
(* C34, C35: diagnostics                                                    *)

\* the diagnostics of a source in what get_diagnostics returns
FromSource(diagnostics, source) == SelectSeq(diagnostics, LAMBDA d : d.source = source)

\* C34: the parse errors stored for a file are those of the text last handed
\* to the parser for it, none is stored for a file never parsed, and
\* get_diagnostics reports one "syster-parse" diagnostic for each of them, at
\* its position and with its message
C34_ParseErrorsNeverStale ==
    \A p \in Paths :
        LET reported == FromSource(get_diagnostics(Server, p).diagnostics, "syster-parse")
            errors == IF Indexed(p) THEN parse_with_result(parsed_text[p]).errors ELSE <<>>
        IN  /\ (p \in DOMAIN parse_errors) = Indexed(p)
            /\ Indexed(p) => parse_errors[p] = errors
            /\ Len(reported) = Len(errors)
            /\ \A j \in 1..Len(errors) :
                    /\ reported[j].message = errors[j].message
                    /\ reported[j].range.start
                            = Pos(errors[j].position.line, errors[j].position.column)

\* the cached snapshot still has b as it was parsed with a statement in error
\* (a usage in the second place and nothing in the first); since then its text
\* was fixed and parsed again: no parse error is stored or reported for it
C34_Witness ==
    /\ "b" \in DOMAIN parsed_text /\ parsed_text["b"] = <<"i", "u">>
    /\ host_dirty
    /\ Len(OwnedBy(host_index.symbols, "b")) = 1
    /\ OwnedBy(host_index.symbols, "b")[1].start_col = 1
    /\ parse_errors["b"] = <<>>
    /\ FromSource(get_diagnostics(Server, "b").diagnostics, "syster-parse") = <<>>

\* C35: what get_diagnostics returns for a file never holds diagnostics of
\* both sources, and holds "syster-semantic" ones only if no parse error is
\* stored for the file
C35_DiagnosticsNeverMixSources ==
    \A uri \in Uris :
        LET diagnostics == get_diagnostics(Server, uri).diagnostics
            parse == FromSource(diagnostics, "syster-parse")
            semantic == FromSource(diagnostics, "syster-semantic")
        IN  /\ parse = <<>> \/ semantic = <<>>
            /\ Len(parse) + Len(semantic) = Len(diagnostics)
            /\ semantic # <<>> =>
                    /\ to_file_path(uri).ok
                    /\ \/ to_file_path(uri).path \notin DOMAIN parse_errors
                       \/ parse_errors[to_file_path(uri).path] = <<>>

\* b holds a statement in error and a usage of V without the import: the
\* semantic check has a finding for b, and only the parse error is reported
C35_Witness ==
    /\ "b" \in DOMAIN host_files /\ host_files["b"].elements = <<"?", "u">>
    /\ parse_errors["b"] # <<>>
    /\ check_file(View, "b") # <<>>
    /\ get_diagnostics(Server, "b").diagnostics # <<>>
    /\ FromSource(get_diagnostics(Server, "b").diagnostics, "syster-semantic") = <<>>

-----------------------------------------------------------------------------
(* C36: a text change that fails                                            *)

\* whether the range of a change cannot be applied to the text
BadRange(text, range) ==
    \/ ~position_to_byte_offset(text, range.start).ok
    \/ ~position_to_byte_offset(text, range.end).ok
    \/ position_to_byte_offset(text, range.start).offset
            > position_to_byte_offset(text, range.end).offset

\* C36: apply_text_change_only returns Err only for a URI that is no file
\* path or for a ranged change of a non-empty buffer whose range has a line
\* beyond the text or starts after its end, and then the server, its text
\* buffers included, is as before the call
C36_FailedChangeHasNoEffect ==
    \A uri \in Uris : \A change \in AllChanges(uri) :
        LET r == apply_text_change_only(Server, uri, change)
        IN  ~r.ok =>
                /\ r.state = Server
                /\ \/ ~to_file_path(uri).ok
                   \/ /\ change.has_range
                      /\ uri \in DOMAIN document_texts
                      /\ document_texts[uri] # <<>>
                      /\ BadRange(document_texts[uri], change.range)

\* the buffer of b holds an import and a usage; a change whose range starts
\* after its end and one whose range ends beyond the last line both fail
C36_Witness ==
    /\ "b" \in DOMAIN document_texts /\ document_texts["b"] = <<"i", "u">>
    /\ ~apply_text_change_only(Server, "b",
                               RangeChange(Range(Pos(0, 1), Pos(0, 0)), <<>>)).ok
    /\ ~apply_text_change_only(Server, "b",
                               RangeChange(Range(Pos(0, 0), Pos(2, 0)), <<>>)).ok
    /\ ~apply_text_change_only(Server, "untitled", FullChange(<<"d">>)).ok

-----------------------------------------------------------------------------
(* C37, C38: apply_text_edit on the text of document a                      *)

\* the text of document a, empty before the first change
EditedText == IF "a" \in DOMAIN document_texts THEN document_texts["a"] ELSE <<>>

\* the bytes of a text: each character gives as many bytes as it is wide
Bytes(text) ==
    Flatten([k \in 1..Len(text) |-> [j \in 1..CharWidth(text[k]) |-> <<text[k], j>>]])

\* text[..start] + new_text + text[end..] on the bytes
Splice(text, start, end, new_text) ==
    SubSeq(Bytes(text), 1, start) \o Bytes(new_text)
        \o SubSeq(Bytes(text), end + 1, Len(Bytes(text)))

\* whether a position lies after another
PositionAfter(p, q) ==
    p.line > q.line \/ (p.line = q.line /\ p.character > q.character)

\* C37: apply_text_edit returns Ok exactly when both positions have a line
\* that is at most the number of lines of the text and the byte offset of
\* range.start is at most that of range.end (a character beyond the end of
\* its line counts as the end of the line); the result is then
\* text[..start] + new_text + text[end..], of length
\* text.len() - (end - start) + new_text.len()
C37_SplicesTheByteSpan ==
    \A range \in EditRanges : \A new_text \in EditInserts :
        LET text == EditedText
            r == apply_text_edit(text, range, new_text)
            s == position_to_byte_offset(text, range.start)
            e == position_to_byte_offset(text, range.end)
        IN  /\ s.ok = (range.start.line <= Len(SplitLines(text)))
            /\ e.ok = (range.end.line <= Len(SplitLines(text)))
            /\ r.ok = (s.ok /\ e.ok /\ s.offset <= e.offset)
            /\ r.ok =>
                    /\ Bytes(r.text) = Splice(text, s.offset, e.offset, new_text)
                    /\ ByteLen(r.text)
                            = ByteLen(text) - (e.offset - s.offset) + ByteLen(new_text)

\* in a text of two lines with a two-byte character the span from the second
\* character of the first line to the start of the second line is replaced
C37_Witness ==
    /\ EditedText = <<"e'", "x", "\n">>
    /\ apply_text_edit(EditedText, Range(Pos(0, 1), Pos(1, 0)), <<"e'">>).ok
    /\ apply_text_edit(EditedText, Range(Pos(0, 1), Pos(1, 0)), <<"e'">>).text
            = <<"e'", "e'">>
    /\ ~apply_text_edit(EditedText, Range(Pos(1, 0), Pos(0, 1)), <<>>).ok
    /\ ~apply_text_edit(EditedText, Range(Pos(0, 0), Pos(3, 0)), <<>>).ok

\* C37 as stated: the result is the splice of the given length, and Err is
\* returned when range.start lies after range.end or the line of a position
\* is beyond the text
C37_ErrWhenStartAfterEnd ==
    \A range \in EditRanges : \A new_text \in EditInserts :
        "a" \in DOMAIN document_texts =>
        LET text == EditedText
            r == apply_text_edit(text, range, new_text)
            s == position_to_byte_offset(text, range.start)
            e == position_to_byte_offset(text, range.end)
        IN  /\ r.ok =>
                    /\ Bytes(r.text) = Splice(text, s.offset, e.offset, new_text)
                    /\ ByteLen(r.text)
                            = ByteLen(text) - (e.offset - s.offset) + ByteLen(new_text)
            /\ \/ PositionAfter(range.start, range.end)
               \/ range.start.line > Len(SplitLines(text))
               \/ range.end.line > Len(SplitLines(text))
               => ~r.ok

\* C38: apply_text_edit returns Ok or Err, never the panic of a string
\* slice: every offset position_to_byte_offset accepts is at most the length
\* of the text in bytes and is a character boundary of it
C38_ApplyTextEditNeverPanics ==
    \A range \in EditRanges :
        LET text == EditedText
            s == position_to_byte_offset(text, range.start)
            e == position_to_byte_offset(text, range.end)
        IN  /\ s.ok => s.offset <= ByteLen(text) /\ is_char_boundary(text, s.offset)
            /\ e.ok => e.offset <= ByteLen(text) /\ is_char_boundary(text, e.offset)
            /\ \A new_text \in EditInserts : ~apply_text_edit(text, range, new_text).panic

\* a text with a two-byte character before a carriage return and a line feed;
\* the edit from behind the character to the end of the text is accepted
C38_Witness ==
    /\ EditedText = <<"e'", "\r", "\n">>
    /\ position_to_byte_offset(EditedText, Pos(0, 1)).offset = 2
    /\ position_to_byte_offset(EditedText, Pos(0, 3)).offset = 3
    /\ apply_text_edit(EditedText, Range(Pos(0, 1), Pos(1, 0)), <<"\n">>).ok

-----------------------------------------------------------------------------
(* C39: the edit format_text returns                                        *)

\* C39: format_text returns None exactly when the formatted text equals the
\* text; otherwise it returns one TextEdit, and applying it to the text gives
\* the formatted text
C39_FormatEditCoversDocument ==
    LET text == EditedText
        formatted == Normalise(text)
        result == FormatResult(FormatCall(text), FALSE)
    IN  /\ result.some = (formatted # text)
        /\ result.some =>
                /\ Len(result.edits) = 1
                /\ result.edits[1].new_text = formatted
                /\ result.edits[1].range.start = Pos(0, 0)
                /\ apply_text_edit(text, result.edits[1].range, formatted).ok
                /\ apply_text_edit(text, result.edits[1].range, formatted).text = formatted

-----------------------------------------------------------------------------
(* C40: the "Referenced by" section of hover                                *)

\* the reference count the code lens shows for a symbol, 0 without a lens
LensCount(symbol) ==
    LET lenses == SelectSeq(get_code_lenses(Server, symbol.file).lenses,
                            LAMBDA lens : lens.range = span_to_lsp_range(symbol))
    IN  IF lenses = <<>> THEN 0 ELSE lenses[1].reference_count

\* whether a reference resolves to the symbol of the qualified name
RefersTo(ref_info, qualified_name) ==
    /\ resolve_standard(View, ref_info).found
    /\ resolve_standard(View, ref_info).symbol.qualified_name = qualified_name

\* C40: every reference the hover of a symbol S lists under "Referenced by"
\* refers to S, and for a definition or package their number is the
\* reference count of the code lens of S
C40_ReferencedByRefersToSymbol ==
    \A uri \in Paths : \A position \in HoverPositions :
        LET hover == get_hover(Server, uri, position).hover
        IN  hover.found =>
                LET symbol == resolve(View, hover.qualified_name).symbol
                IN  /\ \A j \in 1..Len(hover.referenced_by) :
                            RefersTo(hover.referenced_by[j], hover.qualified_name)
                    /\ is_definition(symbol.kind) \/ symbol.kind = "Package" =>
                            Len(hover.referenced_by) = LensCount(symbol)

====
